---- MODULE Spec2Model ----
(***************************************************************************)
(* A model of dotenvy's reconciliation engine (internal/sync), the filter, *)
(* the credential resolver, three secret stores (railway: plain readback,  *)
(* flyio: write-only, dotenv: a local file with quoting) and the plain and *)
(* TUI sync orchestrators.  Strings whose characters matter (secret names, *)
(* values, glob patterns) are sequences of one-character strings.          *)
(***************************************************************************)
EXTENDS Integers, Sequences, FiniteSets, TLC

\* ------------------------------------------------------------------ bounds
MaxRuns == 2       \* direct Engine calls in one behaviour
MaxCommands == 1   \* dotenvy sync commands in one behaviour
MaxDisturb == 1    \* injected store faults plus edits by other writers

\* ------------------------------------------------------- strings as chars
BS == "\\"
DQ == "\""
SQ == "'"

Absent == <<"<absent>">>   \* a key that is not in a Go map

NA == <<"A", "K">>
NB == <<"B", "K">>
Names == {NA, NB}

VX == <<"x">>
VY == <<"y">>
VBS == <<BS>>
Empty == <<>>

IsSpace(c) == c \in {" ", "\t", "\n"}

RECURSIVE TrimLeft(_)
TrimLeft(s) == IF s # <<>> /\ IsSpace(Head(s)) THEN TrimLeft(Tail(s)) ELSE s

RECURSIVE TrimRight(_)
TrimRight(s) ==
    IF s # <<>> /\ IsSpace(s[Len(s)]) THEN TrimRight(SubSeq(s, 1, Len(s) - 1)) ELSE s

TrimSpace(s) == TrimRight(TrimLeft(s))

RECURSIVE ReplaceAll(_, _, _)
ReplaceAll(s, c, rep) ==
    IF s = <<>> THEN <<>>
    ELSE (IF Head(s) = c THEN rep ELSE <<Head(s)>>) \o ReplaceAll(Tail(s), c, rep)

ContainsAny(s, chars) == \E i \in 1..Len(s) : s[i] \in chars

\* providers/dotenv: strip one pair of matching surrounding quotes
unquote(s) ==
    IF Len(s) >= 2 /\ ((s[1] = DQ /\ s[Len(s)] = DQ) \/ (s[1] = SQ /\ s[Len(s)] = SQ))
    THEN SubSeq(s, 2, Len(s) - 1)
    ELSE s

\* providers/dotenv: quote (and escape) when empty or holding a special char
quoteIfNeeded(s) ==
    IF s = <<>> \/ ContainsAny(s, {" ", "\t", "\n", DQ, SQ, BS, "$"})
    THEN <<DQ>> \o ReplaceAll(ReplaceAll(s, BS, <<BS, BS>>), DQ, <<BS, DQ>>) \o <<DQ>>
    ELSE s

\* --------------------------------------------------------------- lookups
\* Go's  v, ok := m[k]  : the zero value "" when the key is missing
Has(m, n) == m[n] # Absent
Val(m, n) == IF m[n] = Absent THEN Empty ELSE m[n]

NoKeys == [n \in Names |-> Absent]

\* --------------------------------------------------- provider registry
ProviderInfo ==
    [railway |-> [EnvVar |-> "RAILWAY_TOKEN", WriteOnly |-> FALSE, SdkAuth |-> FALSE],
     flyio   |-> [EnvVar |-> "FLY_API_TOKEN", WriteOnly |-> TRUE,  SdkAuth |-> FALSE],
     dotenv  |-> [EnvVar |-> "",              WriteOnly |-> FALSE, SdkAuth |-> FALSE]]

EnvVarFor(type) == ProviderInfo[type].EnvVar
IsWriteOnly(type) == ProviderInfo[type].WriteOnly

EnvVars == {"RAILWAY_TOKEN", "FLY_API_TOKEN"}

\* ------------------------------------------------------------- targets
\* dotenvy.yaml: three targets.  Mapping is remote environment -> local one.
Targets ==
    [api  |-> [Name |-> "api", Type |-> "railway",
               Mapping |-> [staging |-> "test", production |-> "live", canary |-> "live"],
               Include |-> <<>>, Exclude |-> <<>>,
               Config |-> [token |-> "", deploy_key |-> "", api_key |-> "", project_id |-> "p", app_name |-> ""]],
     fly  |-> [Name |-> "fly", Type |-> "flyio",
               Mapping |-> [default |-> "test"],
               Include |-> << <<"A", "*">> >>, Exclude |-> <<>>,
               Config |-> [token |-> "", deploy_key |-> "", api_key |-> "", project_id |-> "", app_name |-> "a"]],
     file |-> [Name |-> "file", Type |-> "dotenv",
               Mapping |-> [local |-> "test"],
               Include |-> <<>>, Exclude |-> <<>>,
               Config |-> [token |-> "", deploy_key |-> "", api_key |-> "", project_id |-> "", app_name |-> ""]]]

TargetNames == DOMAIN Targets
TargetOrder == <<"api", "fly", "file">>
LocalEnvs == {"test", "live"}

\* model.Target.MapToRemote: the remote environments mapped to localEnv
MapToRemoteAnyEnv(t, localEnv) == DOMAIN t.Mapping

MapToRemote(t, localEnv) == {r \in DOMAIN t.Mapping : t.Mapping[r] = localEnv}

\* ---------------------------------------------------------------- filter
\* filepath.Match restricted to literals, ? and * (neither of which matches
\* the path separator)
RECURSIVE Match(_, _)
Match(p, s) ==
    IF p = <<>> THEN s = <<>>
    ELSE IF Head(p) = "*"
    THEN Match(Tail(p), s) \/ (s # <<>> /\ Head(s) # "/" /\ Match(p, Tail(s)))
    ELSE /\ s # <<>>
         /\ (Head(p) = "?" /\ Head(s) # "/") \/ (Head(p) # "?" /\ Head(p) = Head(s))
         /\ Match(Tail(p), Tail(s))

matchesAny(name, patterns) == \E i \in 1..Len(patterns) : Match(patterns[i], name)

ShouldSyncSecretIncludeWins(name, t) ==
    IF Len(t.Include) > 0 THEN matchesAny(name, t.Include)
    ELSE ~matchesAny(name, t.Exclude)

ShouldSyncSecret(name, t) ==
    /\ ~(Len(t.Include) > 0 /\ ~matchesAny(name, t.Include))
    /\ ~matchesAny(name, t.Exclude)

FilterSecretNames(names, t) == SelectSeq(names, LAMBDA n : ShouldSyncSecret(n, t))

\* ----------------------------------------------------------- credentials
OsEnvs == [EnvVars -> {"", "tok"}]

\* the variables an inline token may refer to
RefVars == EnvVars \cup {"MY_TOKEN"}

\* os.ExpandEnv on an inline token: a ${VAR} reference (an unset variable
\* expands to "") or a literal
ExpandEnv(tok, env) ==
    IF \E v \in RefVars : tok = "${" \o v \o "}"
    THEN LET v == CHOOSE w \in RefVars : tok = "${" \o w \o "}"
         IN IF v \in DOMAIN env THEN env[v] ELSE ""
    ELSE tok

getTokenFromConfig(config) ==
    IF config.token # "" THEN config.token
    ELSE IF config.deploy_key # "" THEN config.deploy_key
    ELSE config.api_key

ResolveCredentialsConfigFirst(type, config, env) ==
    IF getTokenFromConfig(config) # ""
    THEN [ok |-> TRUE, Token |-> ExpandEnv(getTokenFromConfig(config), env),
          Source |-> "config"]
    ELSE IF EnvVarFor(type) # "" /\ env[EnvVarFor(type)] # ""
    THEN [ok |-> TRUE, Token |-> env[EnvVarFor(type)], Source |-> "env"]
    ELSE [ok |-> FALSE, Token |-> "", Source |-> ""]

ResolveCredentials(type, config, env) ==
    IF EnvVarFor(type) # "" /\ env[EnvVarFor(type)] # ""
    THEN [ok |-> TRUE, Token |-> env[EnvVarFor(type)], Source |-> "env"]
    ELSE IF getTokenFromConfig(config) # ""
    THEN [ok |-> TRUE, Token |-> ExpandEnv(getTokenFromConfig(config), env),
          Source |-> "config"]
    ELSE [ok |-> FALSE, Token |-> "", Source |-> ""]

\* auth.CheckAuth: the Authenticated flag
CheckAuth(t, env) ==
    IF ProviderInfo[t.Type].SdkAuth THEN TRUE
    ELSE ResolveCredentials(t.Type, t.Config, env).ok

\* the provider factories: what each New() requires of its config
Factory(type, config, resolved) ==
    LET token == IF resolved # "" THEN resolved ELSE config.token
    IN CASE type = "railway" -> token # "" /\ config.project_id # ""
         [] type = "flyio"   -> token # "" /\ config.app_name # ""
         [] type = "dotenv"  -> TRUE

\* sync.createProvider: TRUE when a store handle is returned
createProvider(t, env) ==
    IF ProviderInfo[t.Type].SdkAuth \/ ProviderInfo[t.Type].EnvVar = ""
    THEN Factory(t.Type, t.Config, "")
    ELSE LET creds == ResolveCredentials(t.Type, t.Config, env)
         IN creds.ok /\ Factory(t.Type, t.Config, creds.Token)

\* ----------------------------------------------------------------- stores
\* railway keeps one variable set per environment; a Fly.io app and a
\* dotenv file hold one set whatever environment is named.
StoreOf(t, remoteEnv) ==
    IF t.Type = "railway" THEN <<t.Name, remoteEnv>> ELSE <<t.Name, "">>

StoreIds == {<<"api", "staging">>, <<"api", "production">>, <<"api", "canary">>,
             <<"fly", "">>, <<"file", "">>}

\* Provider.List: the name -> value pairs a listing returns
ProviderList(type, content) ==
    [n \in Names |->
        IF content[n] = Absent THEN Absent
        ELSE CASE type = "railway" -> content[n]
               [] type = "flyio"   -> Empty
               [] type = "dotenv"  -> unquote(TrimSpace(content[n]))]

\* Provider.Set: the store contents after a successful write
ProviderSet(type, content, name, value) ==
    [content EXCEPT ![name] = IF type = "dotenv" THEN quoteIfNeeded(value) ELSE value]

\* Provider.Delete
ProviderDelete(type, content, name) == [content EXCEPT ![name] = Absent]

\* ----------------------------------------------------------- local source
NewFileSource == [loaded |-> FALSE, secrets |-> NoKeys]

\* a file os.Open fails on (missing, or not readable)
Unreadable == [n \in Names |-> <<"<unreadable>">>]

\* FileSource.load: parse KEY=value lines once, then serve the cache; when
\* the file cannot be opened the source stays unloaded and empty
loadUncached(f, file) ==
    IF file = Unreadable THEN f
    ELSE [loaded |-> TRUE,
          secrets |-> [n \in Names |->
                         IF file[n] = Absent THEN Absent
                         ELSE unquote(TrimSpace(file[n]))]]

load(f, file) ==
    IF f.loaded \/ file = Unreadable THEN f
    ELSE [loaded |-> TRUE,
          secrets |-> [n \in Names |->
                         IF file[n] = Absent THEN Absent
                         ELSE unquote(TrimSpace(file[n]))]]

\* FileSource.GetAll after its call of load: the cached values of the
\* names, or nil (no name has a value) when load failed
GetAll(f, names) ==
    [n \in Names |->
        IF (\E i \in 1..Len(names) : names[i] = n) THEN f.secrets[n] ELSE Absent]

\* ------------------------------------------------------- engine: Preview
\* Preview's   provInfo.WriteOnly   (the listing is at hand but not used)
WriteOnlyFromListing(type, remoteMap) ==
    \A n \in Names : remoteMap[n] \in {Absent, Empty}

PreviewWriteOnly(type, remoteMap) == ProviderInfo[type].WriteOnly

\* Preview's if / else-if chain for one name; "skip" is the  continue
ClassifyKeepEmpty(hasLocal, localValue, writeOnly, hasRemote, remoteValue) ==
    IF ~hasLocal THEN "skip"
    ELSE IF writeOnly /\ hasRemote THEN "unknown"
    ELSE IF ~hasRemote THEN "add"
    ELSE IF localValue # remoteValue THEN "change"
    ELSE "unchanged"

ClassifyWriteOnlySettles(hasLocal, localValue, writeOnly, hasRemote, remoteValue) ==
    IF ~hasLocal \/ localValue = Empty THEN "skip"
    ELSE IF writeOnly /\ hasRemote THEN "unchanged"
    ELSE IF ~hasRemote THEN "add"
    ELSE IF localValue # remoteValue THEN "change"
    ELSE "unchanged"

ClassifyEmptyIsAbsent(hasLocal, localValue, writeOnly, hasRemote, remoteValue) ==
    IF ~hasLocal \/ localValue = Empty THEN "skip"
    ELSE IF writeOnly /\ hasRemote THEN "unknown"
    ELSE IF remoteValue = Empty THEN "add"
    ELSE IF localValue # remoteValue THEN "change"
    ELSE "unchanged"

Classify(hasLocal, localValue, writeOnly, hasRemote, remoteValue) ==
    IF ~hasLocal \/ localValue = Empty THEN "skip"
    ELSE IF writeOnly /\ hasRemote THEN "unknown"
    ELSE IF ~hasRemote THEN "add"
    ELSE IF localValue # remoteValue THEN "change"
    ELSE "unchanged"

\* Preview's loop over filteredNames, appending one SecretDiff per kept name
RECURSIVE PreviewDiffs(_, _, _, _, _)
PreviewDiffs(names, sourceValues, remoteMap, writeOnly, remoteEnv) ==
    IF names = <<>> THEN <<>>
    ELSE LET name == Head(names)
             diffType == Classify(Has(sourceValues, name), Val(sourceValues, name),
                                  writeOnly, Has(remoteMap, name), Val(remoteMap, name))
             rest == PreviewDiffs(Tail(names), sourceValues, remoteMap, writeOnly, remoteEnv)
         IN IF diffType = "skip" THEN rest
            ELSE << [Name |-> name, Type |-> diffType,
                     OldValue |-> Val(remoteMap, name),
                     NewValue |-> Val(sourceValues, name),
                     Environment |-> remoteEnv] >> \o rest

\* model.TargetDiff.HasChanges
HasChanges(diffs) == \E i \in 1..Len(diffs) : diffs[i].Type # "unchanged"

\* ---------------------------------------------------------- engine: Sync
NoResult == [Added |-> 0, Changed |-> 0, Unchanged |-> 0, Unknown |-> 0,
             Failed |-> 0, Errors |-> <<>>]

\* the dry-run branch: tally the classifications, write nothing
RECURSIVE DryRunTally(_, _)
DryRunTally(diffs, r) ==
    IF diffs = <<>> THEN r
    ELSE LET d == Head(diffs)
             r2 == CASE d.Type = "add"       -> [r EXCEPT !.Added = @ + 1]
                     [] d.Type = "change"    -> [r EXCEPT !.Changed = @ + 1]
                     [] d.Type = "unchanged" -> [r EXCEPT !.Unchanged = @ + 1]
                     [] d.Type = "unknown"   -> [r EXCEPT !.Unknown = @ + 1]
                     [] OTHER -> r
         IN DryRunTally(Tail(diffs), r2)

\* Sync's  if opts.DryRun { ...; return }
NeverDryRun(dryRun) == FALSE

TakesDryRunBranch(dryRun) == dryRun

\* the store calls the apply loop issues for one non-Unchanged entry
ApplyCallsDeleteFirst(d) ==
    IF d.Type = "change" THEN <<"Delete", "Set">>
    ELSE IF d.Type \in {"add", "unknown"} THEN <<"Set">> ELSE <<>>

ApplyCallsNoUnknown(d) ==
    IF d.Type \in {"add", "change"} THEN <<"Set">> ELSE <<>>

ApplyCalls(d) ==
    IF d.Type \in {"add", "change", "unknown"} THEN <<"Set">> ELSE <<>>

\* the value handed to Set: the entry's NewValue (fileValue: what the local
\* file holds for the name at the time of the call)
SetValueReread(d, fileValue) == fileValue

SetValue(d, fileValue) == d.NewValue

\* the apply loop's next position after an entry (it has no break)
NextIndexStopOnError(i, n, failed) == IF failed THEN n + 1 ELSE i + 1

NextIndex(i, n, failed) == i + 1

\* the counters after one non-Unchanged entry
CountAlsoOnFailure(r, d, failed) ==
    LET r1 == IF failed
              THEN [r EXCEPT !.Failed = @ + 1, !.Errors = Append(@, d.Name)]
              ELSE r
    IN CASE d.Type = "add"     -> [r1 EXCEPT !.Added = @ + 1]
         [] d.Type = "unknown" -> [r1 EXCEPT !.Unknown = @ + 1]
         [] OTHER              -> [r1 EXCEPT !.Changed = @ + 1]

Count(r, d, failed) ==
    IF failed
    THEN [r EXCEPT !.Failed = @ + 1, !.Errors = Append(@, d.Name)]
    ELSE CASE d.Type = "add"     -> [r EXCEPT !.Added = @ + 1]
           [] d.Type = "unknown" -> [r EXCEPT !.Unknown = @ + 1]
           [] OTHER              -> [r EXCEPT !.Changed = @ + 1]

\* the two ProgressEvents opts.Progress receives around one write attempt
\* (at: history, the number of store calls the command had made when the
\* event fired)
ProgressEvents(progress, targetName, d, remoteEnv, ok, at) ==
    IF ~progress THEN <<>>
    ELSE << [Phase |-> "sync", TargetName |-> targetName, SecretName |-> d.Name,
             Environment |-> remoteEnv, Action |-> d.Type, Success |-> FALSE,
             Error |-> FALSE, Message |-> "Syncing", at |-> at],
            [Phase |-> "sync", TargetName |-> targetName, SecretName |-> d.Name,
             Environment |-> remoteEnv, Action |-> "", Success |-> ok,
             Error |-> ~ok, Message |-> "", at |-> at + Len(ApplyCalls(d))] >>

\* ------------------------------------------------------------------ state
VARIABLES
    envFile,    \* the local .env.<env> file: name -> text after "=" (or Absent)
    schema,     \* dotenvy.yaml's secrets list
    store,      \* every remote store: StoreId -> (name -> stored text)
    osenv,      \* the process environment of the running command
    src,        \* the command's FileSource (its load-once cache)
    pc,         \* "idle", "engine", "plain", "tui" or "done"
    run,        \* the orchestrator's locals
    eng,        \* the locals of the Engine call in progress
    log,        \* the store calls (List, Set, Delete) of the current command
    shadow,     \* history: the stores as they would be without this command's writes
    quiet,      \* history: pairs last synced for real, cleanly, and undisturbed since
    focus,      \* the (target, remote environment) pair direct Engine calls address
    nRuns,      \* history: commands started
    nDisturb,   \* history: faults injected and outside edits made
    probe       \* the arguments and the result of a function called on its own

vars == <<envFile, schema, store, osenv, src, pc, run, eng, log,
          shadow, quiet, focus, nRuns, nDisturb, probe>>

NoProbe == [fn |-> "none"]

NoEnv == [v \in EnvVars |-> ""]
AllEnv == [v \in EnvVars |-> "tok"]

IdleEng ==
    [op |-> "none", phase |-> "idle", target |-> "api", env |-> "", dryRun |-> FALSE,
     diff |-> <<>>, remoteMap |-> NoKeys, sourceValues |-> NoKeys,
     idx |-> 0, result |-> NoResult, err |-> "", base |-> 0,
     second |-> FALSE, clean |-> TRUE, progress |-> FALSE, events |-> <<>>]

NoTotals == [Added |-> 0, Changed |-> 0, Unknown |-> 0, Unchanged |-> 0, Failed |-> 0]

IdleRun ==
    [cmd |-> "", mode |-> "none", dryRun |-> FALSE, localEnv |-> "", secretNames |-> <<>>,
     targets |-> <<>>, tasks |-> <<>>, cur |-> 0, step |-> "", shown |-> <<>>,
     status |-> <<>>, totals |-> NoTotals, err |-> "",
     toFile |-> FALSE, authChecked |-> FALSE, stdout |-> NoKeys,
     fileBefore |-> NoKeys, schemaBefore |-> <<>>,
     diffs |-> <<>>, synced |-> <<>>, syncResults |-> "nil", listed |-> NoKeys]

\* the inputs: NA takes every kind of value, NB is set or not
FileValues == (NA :> {Absent, Empty, VX, VBS}) @@ (NB :> {Absent, VX})
RemoteValues == (NA :> {Absent, Empty, VX}) @@ (NB :> {Absent, VX})
InMaps(vals) == {m \in [Names -> UNION {vals[n] : n \in Names}] :
                    \A n \in Names : m[n] \in vals[n]}

\* the (target, remote environment) pairs local environment "test" maps to
Pairs == {p \in TargetNames \X {"staging", "default", "local"} :
            p[2] \in MapToRemote(Targets[p[1]], "test")}

Init ==
    /\ envFile \in InMaps(FileValues)
    /\ schema = <<NA, NB>>
    /\ \E r \in InMaps(RemoteValues) : store = [s \in StoreIds |-> r]
    /\ osenv = NoEnv
    /\ src = NewFileSource
    /\ pc = "idle"
    /\ run = IdleRun
    /\ eng = IdleEng
    /\ log = <<>>
    /\ shadow = store
    /\ quiet = {}
    /\ focus \in Pairs
    /\ nRuns = 0
    /\ nDisturb = 0
    /\ probe = NoProbe

\* ------------------------------------------------------- the Engine calls
\* the Engine is entered: Preview(secretNames, src, target, remoteEnv) or
\* Sync(..., opts) with locals fresh
\* (base: how many store calls the command had made before; second, clean:
\* history for the idempotence claim)
Enter(op, tname, remoteEnv, dryRun, calls) ==
    [IdleEng EXCEPT !.op = op, !.phase = "call", !.target = tname, !.env = remoteEnv,
                    !.dryRun = dryRun, !.base = Len(calls),
                    !.second = (StoreOf(Targets[tname], remoteEnv) \in quiet)]

ListCall(e, ok) ==
    [op |-> "List", target |-> e.target, env |-> e.env, name |-> Empty,
     value |-> Empty, ok |-> ok]

\* Preview's two error returns: no store handle, or the List call failed
PreviewErrorIgnoreList(created, listOk) == IF ~created THEN "create" ELSE ""

PreviewError(created, listOk) ==
    IF ~created THEN "create" ELSE IF ~listOk THEN "list" ELSE ""

\* Engine.Preview as a whole, and with it the part of Engine.Sync that
\* needs no further store call: the dry-run tally, or the return of a
\* result for an empty diff list
PreviewStep ==
    /\ eng.phase = "call"
    /\ LET t == Targets[eng.target]
           sid == StoreOf(t, eng.env)
           filteredNames == FilterSecretNames(run.secretNames, t)
           loaded == load(src, envFile)
           sourceValues == GetAll(loaded, filteredNames)
           Listing(ok) == IF ok THEN ProviderList(t.Type, store[sid]) ELSE NoKeys
       IN IF PreviewError(createProvider(t, osenv), TRUE) # ""
          THEN /\ eng' = [eng EXCEPT !.phase = "ret",
                                     !.err = PreviewError(createProvider(t, osenv), TRUE)]
               /\ UNCHANGED <<src, log, nDisturb>>
          ELSE \E ok \in BOOLEAN :
               LET remoteMap == Listing(ok)
                   writeOnly == PreviewWriteOnly(t.Type, remoteMap)
                   diffs == PreviewDiffs(filteredNames, sourceValues, remoteMap,
                                         writeOnly, eng.env)
               IN
               /\ ~ok => nDisturb < MaxDisturb
               /\ nDisturb' = IF ok THEN nDisturb ELSE nDisturb + 1
               /\ src' = loaded
               /\ log' = Append(log, ListCall(eng, ok))
               /\ eng' =
                    IF PreviewError(TRUE, ok) # ""
                    THEN [eng EXCEPT !.phase = "ret", !.err = PreviewError(TRUE, ok)]
                    ELSE LET e1 == [eng EXCEPT !.diff = diffs, !.remoteMap = remoteMap,
                                               !.sourceValues = sourceValues, !.idx = 1]
                         IN IF eng.op = "preview" THEN [e1 EXCEPT !.phase = "ret"]
                            ELSE IF TakesDryRunBranch(eng.dryRun)
                            THEN [e1 EXCEPT !.phase = "ret",
                                            !.result = DryRunTally(diffs, NoResult)]
                            ELSE IF diffs = <<>> THEN [e1 EXCEPT !.phase = "ret"]
                            ELSE [e1 EXCEPT !.phase = "apply"]
    /\ UNCHANGED <<probe, envFile, schema, store, osenv, pc, run, shadow, quiet, focus, nRuns>>

\* the store and the call log after the calls of one entry, in order
RECURSIVE IssueCalls(_, _, _, _, _, _, _)
IssueCalls(calls, content, calllog, e, d, value, ok) ==
    IF calls = <<>> THEN [content |-> content, log |-> calllog]
    ELSE LET type == Targets[e.target].Type
             rec == [op |-> Head(calls), target |-> e.target, env |-> e.env,
                     name |-> d.Name,
                     value |-> IF Head(calls) = "Set" THEN value ELSE Empty,
                     ok |-> IF Head(calls) = "Set" THEN ok ELSE TRUE]
             next == IF Head(calls) = "Delete" THEN ProviderDelete(type, content, d.Name)
                     ELSE IF ok THEN ProviderSet(type, content, d.Name, value)
                     ELSE content
         IN IssueCalls(Tail(calls), next, Append(calllog, rec), e, d, value, ok)

\* one iteration of Sync's apply loop: count an Unchanged entry, or call
\* Set for the entry and count the outcome; after the last entry Sync returns
ApplyStep ==
    /\ eng.phase = "apply"
    /\ LET d == eng.diff[eng.idx]
           t == Targets[eng.target]
           sid == StoreOf(t, eng.env)
           n == Len(eng.diff)
           Done(i) == IF i > n THEN "ret" ELSE "apply"
       IN IF d.Type = "unchanged"
          THEN /\ eng' = [eng EXCEPT !.result.Unchanged = @ + 1,
                                     !.idx = eng.idx + 1,
                                     !.phase = Done(eng.idx + 1)]
               /\ UNCHANGED <<store, log, nDisturb>>
          ELSE \E ok \in BOOLEAN :
               LET calls == ApplyCalls(d)
                   failed == calls # <<>> /\ ~ok
                   out == IssueCalls(calls, store[sid], log, eng, d,
                                     SetValue(d, Val(envFile, d.Name)), ok)
                   i2 == NextIndex(eng.idx, n, failed)
               IN /\ ~ok => (calls # <<>> /\ nDisturb < MaxDisturb)
                  /\ nDisturb' = IF ok THEN nDisturb ELSE nDisturb + 1
                  /\ store' = [store EXCEPT ![sid] = out.content]
                  /\ log' = out.log
                  /\ eng' = [eng EXCEPT !.result = Count(eng.result, d, failed),
                                        !.idx = i2, !.phase = Done(i2),
                                        !.events = @ \o ProgressEvents(eng.progress,
                                                      t.Name, d, eng.env, ~failed,
                                                      Len(log))]
    /\ UNCHANGED <<probe, envFile, schema, osenv, src, pc, run, shadow, quiet, focus, nRuns>>

\* history: the pairs that stay quiet when the call in eng returns
QuietAfter ==
    LET sid == StoreOf(Targets[eng.target], eng.env)
    IN IF eng.op = "sync" /\ ~eng.dryRun /\ eng.err = "" /\ eng.result.Failed = 0
          /\ eng.clean
       THEN quiet \cup {sid}
       ELSE IF eng.op = "sync" /\ ~eng.dryRun THEN quiet \ {sid} ELSE quiet

\* ------------------------------------------- the Engine called directly
\* a caller (as the package's tests do) invokes Preview or Sync on one pair
CallEngine ==
    /\ pc = "idle"
    /\ nRuns < MaxRuns
    /\ \E op \in {"preview", "sync"}, dryRun \in BOOLEAN, env \in {NoEnv, AllEnv} :
       LET tname == focus[1]
           remoteEnv == focus[2]
       IN /\ op = "preview" => ~dryRun
          /\ pc' = "engine"
          /\ osenv' = env
          /\ src' = NewFileSource
          /\ run' = [IdleRun EXCEPT !.mode = "engine", !.dryRun = dryRun,
                                    !.secretNames = schema]
          /\ eng' = Enter(op, tname, remoteEnv, dryRun, <<>>)
          /\ log' = <<>>
          /\ shadow' = store
          /\ nRuns' = nRuns + 1
    /\ UNCHANGED <<probe, envFile, schema, store, quiet, focus, nDisturb>>

EngineReturn ==
    /\ pc = "engine"
    /\ eng.phase = "ret"
    /\ pc' = "idle"
    /\ quiet' = QuietAfter
    /\ eng' = IdleEng
    /\ run' = IdleRun
    /\ osenv' = NoEnv
    /\ src' = NewFileSource
    /\ log' = <<>>
    /\ UNCHANGED <<probe, envFile, schema, store, shadow, focus, nRuns, nDisturb>>

\* ------------------------------------------------------ the environment
\* another writer changes or removes a secret of the store being synced
ExternalWrite ==
    /\ eng.phase \in {"call", "apply"}
    /\ nDisturb < MaxDisturb
    /\ \E n \in Names, v \in {VY, Absent} :
       LET sid == StoreOf(Targets[eng.target], eng.env)
       IN /\ store[sid][n] # v
          /\ store' = [store EXCEPT ![sid][n] = v]
          /\ shadow' = [shadow EXCEPT ![sid][n] = v]
    /\ nDisturb' = nDisturb + 1
    /\ quiet' = {}
    /\ eng' = [eng EXCEPT !.clean = FALSE]
    /\ UNCHANGED <<probe, envFile, schema, osenv, src, pc, run, log, focus, nRuns>>

\* the user edits the local env file, between commands or during one
LocalEdit ==
    /\ nDisturb < MaxDisturb
    /\ \E n \in Names, v \in {VY, Absent} :
          /\ envFile[n] # v
          /\ envFile' = [envFile EXCEPT ![n] = v]
    /\ nDisturb' = nDisturb + 1
    /\ quiet' = {}
    /\ eng' = [eng EXCEPT !.clean = FALSE]
    /\ UNCHANGED <<probe, schema, store, osenv, src, pc, run, log, shadow, focus, nRuns>>

\* the user removes a name from dotenvy.yaml between commands
SchemaEdit ==
    /\ pc = "idle"
    /\ nRuns > 0
    /\ nDisturb < MaxDisturb
    /\ \E n \in Names :
          /\ \E i \in 1..Len(schema) : schema[i] = n
          /\ schema' = SelectSeq(schema, LAMBDA x : x # n)
    /\ nDisturb' = nDisturb + 1
    /\ quiet' = {}
    /\ UNCHANGED <<probe, envFile, store, osenv, src, pc, run, eng, log, shadow, focus, nRuns>>

\* -------------------------------------------------- the orchestrators
\* the orders in which a range over a Go map can yield the members of S
Orderings(S) ==
    {q \in [1..Cardinality(S) -> S] : \A x \in S : \E i \in 1..Cardinality(S) : q[i] = x}

\* runSync's task list: for each target, each remote environment of localEnv
\* (the lists the loops can build, one per order MapToRemote can return)
RECURSIVE BuildTasks(_, _)
BuildTasks(targets, localEnv) ==
    IF targets = <<>> THEN {<<>>}
    ELSE LET tn == Head(targets)
             heads == {[i \in 1..Len(q) |-> <<tn, q[i]>>] :
                          q \in Orderings(MapToRemote(Targets[tn], localEnv))}
         IN {h \o rest : h \in heads, rest \in BuildTasks(Tail(targets), localEnv)}

\* runSyncPlain's pre-flight loop over the targets
PlainAllAuth(targets, env) ==
    \A i \in 1..Len(targets) :
        Targets[targets[i]].Type = "dotenv" \/ CheckAuth(Targets[targets[i]], env)

\* SyncModel.checkAuth over the tasks
TuiAuthOk(tasks, env) ==
    \A i \in 1..Len(tasks) :
        Targets[tasks[i][1]].Type = "dotenv" \/ CheckAuth(Targets[tasks[i][1]], env)

\* runSyncPlain's  if !allAuth { return error }
AuthGateOpen(allAuth) == TRUE

AuthGate(allAuth) == allAuth

AddResult(tot, r) ==
    [Added |-> tot.Added + r.Added, Changed |-> tot.Changed + r.Changed,
     Unknown |-> tot.Unknown + r.Unknown, Unchanged |-> tot.Unchanged + r.Unchanged,
     Failed |-> tot.Failed + r.Failed]

\* dotenvy sync <env> [--dry-run] --plain: runSync up to and including
\* runSyncPlain's authentication pass
StartPlain ==
    /\ pc = "idle"
    /\ nRuns < MaxCommands
    /\ Len(schema) > 0
    /\ \E dryRun \in BOOLEAN, localEnv \in LocalEnvs, env \in OsEnvs :
       \E tasks \in BuildTasks(TargetOrder, localEnv) :
       LET r0 == [IdleRun EXCEPT !.mode = "plain", !.dryRun = dryRun,
                                 !.localEnv = localEnv, !.secretNames = schema,
                                 !.targets = TargetOrder, !.tasks = tasks]
       IN /\ tasks # <<>>
          /\ osenv' = env
          /\ IF AuthGate(PlainAllAuth(TargetOrder, env))
             THEN /\ pc' = "plain"
                  /\ run' = [r0 EXCEPT !.cur = 1, !.step = "preview"]
                  /\ eng' = Enter("preview", tasks[1][1], tasks[1][2], FALSE, <<>>)
             ELSE /\ pc' = "done"
                  /\ run' = [r0 EXCEPT !.err = "auth"]
                  /\ eng' = IdleEng
    /\ src' = NewFileSource
    /\ log' = <<>>
    /\ shadow' = store
    /\ nRuns' = nRuns + 1
    /\ UNCHANGED <<probe, envFile, schema, store, quiet, focus, nDisturb>>

\* the pair loop's  continue : the next pair is the following one, whatever
\* the outcome of this one
ContinueAtStopOnFailure(r) ==
    IF r.totals.Failed > 0 THEN Len(r.tasks) + 1 ELSE r.cur + 1

ContinueAt(r) == r.cur + 1

\* runSyncPlain moves to the next pair, or leaves the loop
PlainAdvance(r) ==
    LET nxt == ContinueAt(r)
    IN IF nxt <= Len(r.tasks)
       THEN /\ pc' = "plain"
            /\ run' = [r EXCEPT !.cur = nxt, !.step = "preview", !.shown = <<>>,
                                 !.listed = NoKeys]
            /\ eng' = Enter("preview", r.tasks[nxt][1], r.tasks[nxt][2], FALSE, log)
       ELSE /\ pc' = "done"
            /\ run' = [r EXCEPT !.step = "done"]
            /\ eng' = IdleEng

\* (run.shown, run.listed: history, the diff runSyncPlain displayed and the
\* listing it came from)
\* runSyncPlain after engine.Preview returned: count an error, report
\* "No changes", or show the diff and (unless --dry-run) call engine.Sync
PlainPreviewReturn ==
    /\ pc = "plain"
    /\ run.step = "preview"
    /\ eng.phase = "ret"
    /\ IF eng.err # ""
       THEN PlainAdvance([run EXCEPT !.totals.Failed = @ + 1])
       ELSE IF ~HasChanges(eng.diff)
       THEN PlainAdvance([run EXCEPT !.totals.Unchanged = @ + Len(eng.diff)])
       ELSE IF run.dryRun
       THEN PlainAdvance([run EXCEPT !.shown = eng.diff])
       ELSE /\ pc' = "plain"
            /\ run' = [run EXCEPT !.step = "sync", !.shown = eng.diff,
                                   !.listed = eng.remoteMap]
            /\ eng' = Enter("sync", eng.target, eng.env, FALSE, log)
    /\ UNCHANGED <<probe, envFile, schema, store, osenv, src, log, shadow, quiet, focus,
                   nRuns, nDisturb>>

\* runSyncPlain after engine.Sync returned
PlainSyncReturn ==
    /\ pc = "plain"
    /\ run.step = "sync"
    /\ eng.phase = "ret"
    /\ IF eng.err # ""
       THEN PlainAdvance([run EXCEPT !.totals.Failed = @ + 1])
       ELSE PlainAdvance([run EXCEPT !.totals = AddResult(@, eng.result)])
    /\ quiet' = QuietAfter
    /\ UNCHANGED <<probe, envFile, schema, store, osenv, src, log, shadow, focus,
                   nRuns, nDisturb>>

\* dotenvy sync <env> [--dry-run] on a terminal: NewSyncModel, the checkAuth
\* command and Update(authCheckMsg)
StartTui ==
    /\ pc = "idle"
    /\ nRuns < MaxCommands
    /\ Len(schema) > 0
    /\ \E dryRun \in BOOLEAN, localEnv \in LocalEnvs, env \in OsEnvs :
       \E tasks \in BuildTasks(TargetOrder, localEnv) :
       LET r0 == [IdleRun EXCEPT !.mode = "tui", !.dryRun = dryRun,
                                 !.localEnv = localEnv, !.secretNames = schema,
                                 !.targets = TargetOrder, !.tasks = tasks,
                                 !.status = [i \in 1..Len(tasks) |-> "pending"]]
       IN /\ tasks # <<>>
          /\ osenv' = env
          /\ IF TuiAuthOk(tasks, env)
             THEN /\ pc' = "tui"
                  /\ run' = [r0 EXCEPT !.cur = 1, !.step = "preview",
                                       !.status[1] = "running"]
                  /\ eng' = Enter("preview", tasks[1][1], tasks[1][2], FALSE, <<>>)
             ELSE /\ pc' = "done"
                  /\ run' = [r0 EXCEPT !.err = "auth", !.step = "auth"]
                  /\ eng' = IdleEng
    /\ src' = NewFileSource
    /\ log' = <<>>
    /\ shadow' = store
    /\ nRuns' = nRuns + 1
    /\ UNCHANGED <<probe, envFile, schema, store, quiet, focus, nDisturb>>

\* SyncModel.Update(previewDoneMsg): record the error or the diff, then
\* start runSync for the same task
TuiPreviewDone ==
    /\ pc = "tui"
    /\ run.step = "preview"
    /\ eng.phase = "ret"
    /\ run' = IF eng.err # ""
              THEN [run EXCEPT !.status[run.cur] = "failed", !.step = "sync"]
              ELSE [run EXCEPT !.shown = eng.diff, !.step = "sync"]
    /\ eng' = Enter("sync", eng.target, eng.env, run.dryRun, log)
    /\ UNCHANGED <<probe, envFile, schema, store, osenv, src, pc, log, shadow, quiet, focus,
                   nRuns, nDisturb>>

\* Update(syncDoneMsg): the status the finished task is given
TaskStatusLeftRunning(failed) == IF failed THEN "failed" ELSE "running"

TaskStatusAfterSync(failed) == IF failed THEN "failed" ELSE "complete"

\* Update(syncDoneMsg): m.currentTask++
NextTaskStays(cur) == cur

NextTask(cur) == cur + 1

\* SyncModel.Update(syncDoneMsg): record the outcome, add up the totals,
\* start the next task's preview or finish
TuiSyncDone ==
    /\ pc = "tui"
    /\ run.step = "sync"
    /\ eng.phase = "ret"
    /\ LET r1 == IF eng.err # ""
                 THEN [run EXCEPT !.status[run.cur] = TaskStatusAfterSync(TRUE),
                                  !.totals.Failed = @ + 1]
                 ELSE [run EXCEPT !.status[run.cur] = TaskStatusAfterSync(FALSE),
                                  !.totals = AddResult(@, eng.result)]
           nxt == NextTask(r1.cur)
       IN IF nxt <= Len(r1.tasks)
          THEN /\ pc' = "tui"
               /\ run' = [r1 EXCEPT !.cur = nxt, !.step = "preview",
                                    !.shown = <<>>, !.status[nxt] = "running"]
               /\ eng' = Enter("preview", r1.tasks[nxt][1],
                               r1.tasks[nxt][2], FALSE, log)
          ELSE /\ pc' = "done"
               /\ run' = [r1 EXCEPT !.cur = nxt, !.step = "done"]
               /\ eng' = IdleEng
    /\ quiet' = QuietAfter
    /\ UNCHANGED <<probe, envFile, schema, store, osenv, src, log, shadow, focus,
                   nRuns, nDisturb>>

\* the command exits
Finish ==
    /\ pc = "done"
    /\ pc' = "idle"
    /\ run' = IdleRun
    /\ eng' = IdleEng
    /\ osenv' = NoEnv
    /\ src' = NewFileSource
    /\ log' = <<>>
    /\ UNCHANGED <<probe, envFile, schema, store, shadow, quiet, focus, nRuns, nDisturb>>

\* the inputs of an orchestrated run
OrchFileValues == (NA :> {Empty, VX}) @@ (NB :> {VX})
OrchRemoteValues == (NA :> {VX}) @@ (NB :> {Absent, VX})

InitOrch ==
    /\ envFile \in InMaps(OrchFileValues)
    /\ schema = <<NA, NB>>
    /\ \E r \in InMaps(OrchRemoteValues) : store = [s \in StoreIds |-> r]
    /\ osenv = NoEnv
    /\ src = NewFileSource
    /\ pc = "idle"
    /\ run = IdleRun
    /\ eng = IdleEng
    /\ log = <<>>
    /\ shadow = store
    /\ quiet = {}
    /\ focus = <<"api", "staging">>
    /\ nRuns = 0
    /\ nDisturb = 0
    /\ probe = NoProbe

NextOrch ==
    \/ StartPlain
    \/ StartTui
    \/ PreviewStep
    \/ ApplyStep
    \/ PlainPreviewReturn
    \/ PlainSyncReturn
    \/ TuiPreviewDone
    \/ TuiSyncDone
    \/ Finish
    \/ ExternalWrite
    \/ LocalEdit

SpecOrch == InitOrch /\ [][NextOrch]_vars

Next ==
    \/ CallEngine
    \/ PreviewStep
    \/ ApplyStep
    \/ EngineReturn
    \/ ExternalWrite
    \/ LocalEdit
    \/ SchemaEdit

Spec == Init /\ [][Next]_vars

\* ================================================================ claims
\* the store calls made by the Engine call in progress
Calls == SubSeq(log, eng.base + 1, Len(log))

SetsOf(calls) == SelectSeq(calls, LAMBDA c : c.op = "Set")

\* Preview has returned a TargetDiff to the call in progress
DiffReady == eng.phase \in {"apply", "ret"} /\ eng.err = ""

\* a non-dry-run Sync is past its Preview
SyncApplying == eng.op = "sync" /\ ~eng.dryRun /\ DiffReady

EngTarget == Targets[eng.target]
EngStore == StoreOf(EngTarget, eng.env)

InSchema(n) == \E i \in 1..Len(run.secretNames) : run.secretNames[i] = n

\* what the local source reports for a name
LocalUnset(n) == src.secrets[n] \in {Absent, Empty}

EntriesFor(n) == {i \in 1..Len(eng.diff) : eng.diff[i].Name = n}

\* the (name, value, environment) of every non-Unchanged entry among the first k
RECURSIVE ChangesAmong(_, _)
ChangesAmong(diffs, k) ==
    IF k = 0 THEN <<>>
    ELSE ChangesAmong(diffs, k - 1) \o
         (IF diffs[k].Type = "unchanged" THEN <<>>
          ELSE << <<diffs[k].Name, diffs[k].NewValue, diffs[k].Environment>> >>)

SetTriples(calls) ==
    LET sets == SetsOf(calls)
    IN [i \in 1..Len(sets) |-> <<sets[i].name, sets[i].value, sets[i].env>>]

\* C1: a name whose local value is absent or empty has no entry in the
\* TargetDiff Preview returns, whatever the remote holds and whether or not
\* the store is write-only.
C1_NoEntryForUnsetLocal ==
    DiffReady => \A n \in Names : LocalUnset(n) => EntriesFor(n) = {}

\* an empty local value, a remote value present, a write-only store
C1_Witness ==
    /\ DiffReady
    /\ IsWriteOnly(EngTarget.Type)
    /\ src.secrets[NA] = Empty
    /\ Has(eng.remoteMap, NA)

\* C2: no sync flow (Preview, dry-run Sync, Sync, repeated, also after a
\* name left the schema) calls the store's Delete, and no secret that
\* would otherwise be in a store is missing from it.
C2_NeverDeletes ==
    /\ \A i \in 1..Len(log) : log[i].op # "Delete"
    /\ \A sid \in StoreIds, n \in Names :
          shadow[sid][n] # Absent => store[sid][n] # Absent

\* a second call, a real Sync that wrote, a name gone from the schema but
\* still in the store
C2_Witness ==
    /\ nRuns = 2
    /\ SyncApplying
    /\ eng.phase = "ret"
    /\ SetsOf(Calls) # <<>>
    /\ \E n \in Names : ~InSchema(n) /\ store[EngStore][n] # Absent

\* C3: a failed Set does not stop a non-dry-run Sync: every non-Unchanged
\* entry reached so far has had its Set attempted, Sync returns a result
\* and not an error, and Failed = the number of failed Set calls = the
\* length of Errors.
C3_FailureIsolated ==
    /\ SyncApplying =>
          LET sets == SetsOf(Calls)
              nfailed == Cardinality({i \in 1..Len(sets) : ~sets[i].ok})
          IN /\ eng.result.Failed = nfailed
             /\ Len(eng.result.Errors) = nfailed
             /\ Len(sets) = Len(ChangesAmong(eng.diff, eng.idx - 1))
             /\ eng.phase = "ret" => eng.idx = Len(eng.diff) + 1
    /\ (eng.op = "sync" /\ SetsOf(Calls) # <<>>) => eng.err = ""

\* the first Set failed and the second was still attempted
C3_Witness ==
    /\ SyncApplying
    /\ eng.phase = "ret"
    /\ Len(SetsOf(Calls)) = 2
    /\ ~SetsOf(Calls)[1].ok
    /\ eng.result.Failed = 1

\* C4: on a store that is not write-only, a filtered name with a non-empty
\* local value v has exactly one entry: Add if the listing lacks the name,
\* Unchanged if it lists v, Change if it lists another value; old value =
\* the listed value, new value = v.
C4_Classification ==
    (DiffReady /\ ~IsWriteOnly(EngTarget.Type)) =>
        \A n \in Names :
            (InSchema(n) /\ ShouldSyncSecret(n, EngTarget) /\ ~LocalUnset(n)) =>
                /\ Cardinality(EntriesFor(n)) = 1
                /\ \A i \in EntriesFor(n) :
                      /\ eng.diff[i].Type =
                            (IF eng.remoteMap[n] = Absent THEN "add"
                             ELSE IF eng.remoteMap[n] = src.secrets[n] THEN "unchanged"
                             ELSE "change")
                      /\ eng.diff[i].OldValue = Val(eng.remoteMap, n)
                      /\ eng.diff[i].NewValue = src.secrets[n]

\* one diff with an Add and with a Change away from a listed empty value
C4_Witness ==
    /\ DiffReady
    /\ ~IsWriteOnly(EngTarget.Type)
    /\ \E i, j \in 1..Len(eng.diff) :
          /\ eng.diff[i].Type = "change" /\ eng.diff[i].OldValue = Empty
          /\ eng.diff[j].Type = "add"

\* C5: on a write-only platform a name with a non-empty local value that
\* the listing shows gets Unknown, also when the stored value equals the
\* local one; Unknown comes from the platform's metadata only, so a
\* readback platform never yields it whatever it lists.
C5_WriteOnlyUnknown ==
    DiffReady =>
        /\ \A i \in 1..Len(eng.diff) :
              /\ (IsWriteOnly(EngTarget.Type) /\ Has(eng.remoteMap, eng.diff[i].Name))
                    => eng.diff[i].Type = "unknown"
              /\ eng.diff[i].Type = "unknown" => IsWriteOnly(EngTarget.Type)
        /\ \A n \in Names :
              (/\ IsWriteOnly(EngTarget.Type) /\ InSchema(n)
               /\ ShouldSyncSecret(n, EngTarget)
               /\ ~LocalUnset(n) /\ Has(eng.remoteMap, n)) => EntriesFor(n) # {}

\* write-only, and the value really stored equals the local value
C5_Witness ==
    /\ DiffReady
    /\ eng.clean
    /\ IsWriteOnly(EngTarget.Type)
    /\ \E i \in 1..Len(eng.diff) :
          /\ eng.diff[i].Type = "unknown"
          /\ store[EngStore][eng.diff[i].Name] = eng.diff[i].NewValue

\* C6: on a platform with readback, a non-dry-run Sync that follows a
\* non-dry-run Sync of the same pair without failed writes, with the same
\* local values and no other writer, finds every entry Unchanged and calls
\* no Set.
C6_Idempotent ==
    (SyncApplying /\ eng.second /\ eng.clean /\ ~IsWriteOnly(EngTarget.Type)) =>
        /\ \A i \in 1..Len(eng.diff) : eng.diff[i].Type = "unchanged"
        /\ SetsOf(Calls) = <<>>

\* (C6, for comparison) the same statement for the store that returns
\* what was written
C6_IdempotentPlainStore ==
    (SyncApplying /\ eng.second /\ eng.clean /\ EngTarget.Type = "railway") =>
        /\ \A i \in 1..Len(eng.diff) : eng.diff[i].Type = "unchanged"
        /\ SetsOf(Calls) = <<>>

\* C7: when a target of the run that needs a credential fails the
\* pre-flight check, the run ends in its failed state with no store call
\* made and no Engine call begun.
RunTargets ==
    IF run.mode = "plain" THEN {run.targets[i] : i \in 1..Len(run.targets)}
    ELSE {run.tasks[i][1] : i \in 1..Len(run.tasks)}

C7_AuthFailureTouchesNothing ==
    (/\ run.mode \in {"plain", "tui"}
     /\ \E tn \in RunTargets :
           Targets[tn].Type # "dotenv" /\ ~CheckAuth(Targets[tn], osenv)) =>
        /\ pc = "done"
        /\ run.err = "auth"
        /\ log = <<>>
        /\ eng.phase = "idle"
        /\ store = shadow

\* the plain path: the first target authenticated, a later one did not
C7_Witness ==
    /\ run.mode = "plain"
    /\ run.err = "auth"
    /\ CheckAuth(Targets["api"], osenv)
    /\ ~CheckAuth(Targets["fly"], osenv)

\* C8: a dry run writes nothing: under --dry-run (plain or TUI) and in
\* every Preview and every Sync called with DryRun, only List calls are
\* made and every store holds what it would hold without the command.
C8_DryRunWritesNothing ==
    /\ run.dryRun => (store = shadow /\ \A i \in 1..Len(log) : log[i].op = "List")
    /\ (eng.op = "preview" \/ (eng.op = "sync" /\ eng.dryRun)) =>
          \A i \in 1..Len(Calls) : Calls[i].op = "List"

\* a TUI dry run that ended having counted changes it would make
C8_Witness ==
    /\ run.mode = "tui"
    /\ run.dryRun
    /\ pc = "done"
    /\ run.totals.Added > 0
    /\ run.totals.Changed > 0

\* C9: in a non-dry-run Sync the Set calls made so far are, in order,
\* exactly Set(name, NewValue, remoteEnv) once for each Add, Change or
\* Unknown entry passed, and none for an Unchanged entry.
C9_SetOncePerChange ==
    SyncApplying =>
        /\ SetTriples(Calls) = ChangesAmong(eng.diff, eng.idx - 1)
        /\ \A i \in 1..Len(Calls) : Calls[i].op = "Set" => Calls[i].env = eng.env

\* a returned Sync over an Unknown entry, written once
C9_Witness ==
    /\ SyncApplying
    /\ eng.phase = "ret"
    /\ Len(SetsOf(Calls)) = 1
    /\ \E i \in 1..Len(eng.diff) : eng.diff[i].Type = "unknown"

\* C10: a Sync lists the remote once, before its first Set, and every Set
\* it makes carries the name and the new value of an entry of that
\* Preview's diff (the value the source gave then), whatever has changed
\* locally or remotely since.
C10_ApplyUsesPreview ==
    (eng.op = "sync" /\ ~eng.dryRun /\ eng.phase \in {"apply", "ret"}
        /\ eng.err # "create") =>
        /\ Len(Calls) >= 1
        /\ Calls[1].op = "List"
        /\ \A j \in 2..Len(Calls) :
              /\ Calls[j].op = "Set"
              /\ Calls[1].ok
              /\ \E i \in 1..(eng.idx - 1) :
                    /\ eng.diff[i].Name = Calls[j].name
                    /\ eng.diff[i].Type # "unchanged"
                    /\ eng.diff[i].NewValue = Calls[j].value
                    /\ eng.diff[i].NewValue = Val(eng.sourceValues, Calls[j].name)

\* the local file was edited after the Preview; the previewed value was written
C10_Witness ==
    /\ SyncApplying
    /\ eng.phase = "ret"
    /\ ~eng.clean
    /\ \E j \in 2..Len(Calls) :
          /\ Calls[j].op = "Set"
          /\ Val(envFile, Calls[j].name) # Calls[j].value

\* C11: when the store handle cannot be made or the List call fails,
\* Preview returns an error and no diff at all, and a Sync that meets
\* either failure returns the error with no Set issued and nothing counted.
C11_ErrorMeansNoDiff ==
    /\ (/\ eng.phase \in {"apply", "ret"}
        /\ \/ ~createProvider(EngTarget, osenv)
           \/ (Calls # <<>> /\ Calls[1].op = "List" /\ ~Calls[1].ok)) =>
          /\ eng.phase = "ret"
          /\ eng.err # ""
          /\ eng.diff = <<>>
          /\ eng.result = NoResult
          /\ SetsOf(Calls) = <<>>
          /\ store = shadow
    /\ eng.err = "create" => Calls = <<>>

\* a real Sync with local values to push meets a failed List
C11_Witness ==
    /\ eng.op = "sync"
    /\ ~eng.dryRun
    /\ eng.phase = "ret"
    /\ eng.err = "list"
    /\ \E n \in Names : InSchema(n) /\ ~LocalUnset(n)

\* the store of the run's i-th pair, the calls made on the pair, its faults
TaskTarget(i) == Targets[run.tasks[i][1]]
TaskStore(i) == StoreOf(TaskTarget(i), run.tasks[i][2])
CallsOn(i) == {k \in 1..Len(log) :
                  log[k].target = run.tasks[i][1] /\ log[k].env = run.tasks[i][2]}
FaultOn(i) == \E k \in CallsOn(i) : ~log[k].ok
NFaults == Cardinality({k \in 1..Len(log) : ~log[k].ok})

\* the pair's store holds every local value the pair is to receive
PairSynced(i) ==
    \A n \in Names :
        (InSchema(n) /\ ShouldSyncSecret(n, TaskTarget(i)) /\ ~LocalUnset(n)) =>
            store[TaskStore(i)][n] =
                ProviderSet(TaskTarget(i).Type, store[TaskStore(i)], n, src.secrets[n])[n]

\* a run that passed the authentication check has ended
RunEnded == pc = "done" /\ run.mode \in {"plain", "tui"} /\ run.err = ""

NOfType(diffs, type) == Cardinality({i \in 1..Len(diffs) : diffs[i].Type = type})

\* C13: when Sync returns a result every entry of its diff is counted
\* once: Unchanged entries in Unchanged; in a dry run the others by
\* classification, Failed = 0; in a real run the others by classification
\* when their Set succeeded and in Failed when it failed; the five counters
\* add up to the number of entries.
C13_EveryEntryCountedOnce ==
    (eng.op = "sync" /\ eng.phase = "ret" /\ eng.err = "") =>
        LET r == eng.result
            changes == SelectSeq(eng.diff, LAMBDA d : d.Type # "unchanged")
            sets == SetsOf(Calls)
            Written(type) == Cardinality({k \in 1..Len(changes) :
                                            changes[k].Type = type /\ sets[k].ok})
        IN /\ r.Added + r.Changed + r.Unknown + r.Unchanged + r.Failed = Len(eng.diff)
           /\ r.Unchanged = NOfType(eng.diff, "unchanged")
           /\ eng.dryRun =>
                 /\ r.Added = NOfType(eng.diff, "add")
                 /\ r.Changed = NOfType(eng.diff, "change")
                 /\ r.Unknown = NOfType(eng.diff, "unknown")
                 /\ r.Failed = 0
           /\ ~eng.dryRun =>
                 /\ Len(sets) = Len(changes)
                 /\ r.Added = Written("add")
                 /\ r.Changed = Written("change")
                 /\ r.Unknown = Written("unknown")
                 /\ r.Failed = Cardinality({k \in 1..Len(sets) : ~sets[k].ok})

\* a real Sync returned with one write counted and one failed
C13_Witness ==
    /\ eng.op = "sync"
    /\ ~eng.dryRun
    /\ eng.phase = "ret"
    /\ eng.err = ""
    /\ eng.result.Failed = 1
    /\ eng.result.Added + eng.result.Changed = 1

\* the target's mapping sends remote environment r to the run's local
\* environment (read from the configuration itself)
IsMapped(tn, r) ==
    r \in DOMAIN Targets[tn].Mapping /\ Targets[tn].Mapping[r] = run.localEnv

MappedPairs ==
    {p \in TargetNames \X {"staging", "production", "canary", "default", "local"} :
        IsMapped(p[1], p[2])}

\* the store belongs to a pair of the run
StoreInRun(sid) ==
    \E tn \in TargetNames : \E r \in DOMAIN Targets[tn].Mapping :
        IsMapped(tn, r) /\ StoreOf(Targets[tn], r) = sid

\* C14: a run for local environment L makes store calls only on pairs
\* (target, r) whose mapping sends r to L; when it ends it has previewed
\* every such pair and (unless --dry-run, no fault, no other writer) has
\* applied the local values to it; a target without such an r raises no
\* error and its store is never called or changed.
C14_ExactlyTheMappedPairs ==
    run.mode \in {"plain", "tui"} =>
        /\ \A k \in 1..Len(log) : IsMapped(log[k].target, log[k].env)
        /\ \A i \in 1..Len(run.tasks) : IsMapped(run.tasks[i][1], run.tasks[i][2])
        /\ \A sid \in StoreIds : store[sid] # shadow[sid] => StoreInRun(sid)
        /\ RunEnded =>
              /\ \A p \in MappedPairs :
                    /\ \E k \in 1..Len(log) : log[k].target = p[1] /\ log[k].env = p[2]
                    /\ \E i \in 1..Len(run.tasks) : run.tasks[i] = p
                    /\ (~run.dryRun /\ nDisturb = 0) =>
                          \A n \in Names :
                              (/\ InSchema(n) /\ ~LocalUnset(n)
                               /\ ShouldSyncSecret(n, Targets[p[1]])) =>
                                 store[StoreOf(Targets[p[1]], p[2])][n] = src.secrets[n]
              /\ Len(run.tasks) = Cardinality(MappedPairs)
              /\ nDisturb = 0 => run.totals.Failed = 0

\* a run for "live": both remote environments of the one mapped target
\* were written, the two targets without a mapping were left alone
C14_Witness ==
    /\ RunEnded
    /\ run.localEnv = "live"
    /\ ~run.dryRun
    /\ \E k \in 1..Len(log) : log[k].op = "Set" /\ log[k].env = "production"
    /\ \E k \in 1..Len(log) : log[k].op = "Set" /\ log[k].env = "canary"
    /\ \A k \in 1..Len(log) : log[k].target = "api"

\* the position in the task list of the pair a store call was made on
TaskOfCall(c) == CHOOSE i \in 1..Len(run.tasks) : run.tasks[i] = <<c.target, c.env>>

\* C16: the pairs of a run are processed one at a time in task order: the
\* Engine works on the current task's pair only, no store call on a pair
\* follows a call on a later pair, every earlier task is finished and every
\* later one not begun, and at most one task is Running.
C16_OnePairAtATime ==
    pc \in {"plain", "tui"} =>
        /\ run.cur \in 1..Len(run.tasks)
        /\ <<eng.target, eng.env>> = run.tasks[run.cur]
        /\ \A k \in 1..Len(log) :
              /\ TaskOfCall(log[k]) <= run.cur
              /\ \A l \in k..Len(log) : TaskOfCall(log[k]) <= TaskOfCall(log[l])
        /\ run.mode = "tui" =>
              /\ Cardinality({i \in 1..Len(run.tasks) : run.status[i] = "running"}) <= 1
              /\ \A i \in 1..Len(run.tasks) :
                    /\ i < run.cur => run.status[i] \in {"complete", "failed"}
                    /\ i > run.cur => run.status[i] = "pending"
                    /\ run.status[i] = "running" => i = run.cur

\* the TUI is about to preview the second pair, the first one written
C16_Witness ==
    /\ pc = "tui"
    /\ run.cur = 2
    /\ run.step = "preview"
    /\ eng.phase = "call"
    /\ run.status[1] = "complete"
    /\ run.status[2] = "running"
    /\ \E k \in 1..Len(log) : log[k].op = "Set" /\ TaskOfCall(log[k]) = 1

\* C17: on a write-only platform a secret that is in the store and has a
\* non-empty local value is Unknown on every run, also on the run after a
\* successful write of the same value: no entry is ever Unchanged, and
\* each real Sync calls Set for every entry again.
C17_WriteOnlyNeverSettles ==
    (DiffReady /\ IsWriteOnly(EngTarget.Type)) =>
        /\ \A i \in 1..Len(eng.diff) : eng.diff[i].Type \in {"unknown", "add"}
        /\ \A n \in Names :
              (/\ InSchema(n) /\ ShouldSyncSecret(n, EngTarget) /\ ~LocalUnset(n)
               /\ eng.clean /\ shadow[EngStore][n] # Absent) =>
                    \E i \in EntriesFor(n) : eng.diff[i].Type = "unknown"
        /\ (SyncApplying /\ eng.phase = "ret") => Len(SetsOf(Calls)) = Len(eng.diff)

\* the run after a clean write of the same value: Unknown again, Set again
C17_Witness ==
    /\ SyncApplying
    /\ eng.phase = "ret"
    /\ eng.second
    /\ eng.clean
    /\ IsWriteOnly(EngTarget.Type)
    /\ Len(SetsOf(Calls)) = 1
    /\ SetsOf(Calls)[1].ok
    /\ eng.diff[1].Type = "unknown"
    /\ store[EngStore][eng.diff[1].Name] = eng.diff[1].NewValue

\* ================================================================= pull
\* source.WriteEnvFile: the file is created anew with one line per secret
WriteEnvFile(secrets) ==
    [n \in Names |-> IF secrets[n] = Absent THEN Absent ELSE quoteIfNeeded(secrets[n])]

\* Config.HasSecret
HasSecret(secrets, name) == \E i \in 1..Len(secrets) : secrets[i] = name

\* runPull's  if provider.IsWriteOnly(target.Type) { return error }
PullBlockedNever(type) == FALSE

PullBlocked(type) == IsWriteOnly(type)

\* runPull's filter: with a non-empty schema keep the schema's names only
PullFilter(schemaNames, secrets) ==
    IF Len(schemaNames) > 0
    THEN [n \in Names |-> IF HasSecret(schemaNames, n) THEN secrets[n] ELSE Absent]
    ELSE secrets

\* dotenvy pull <target> --env <pullEnv> [-o file]: runPull as a whole
\* (run.fileBefore, run.schemaBefore: history, the state the command found)
RunPull ==
    /\ pc = "idle"
    /\ nRuns < MaxCommands
    /\ \E tname \in TargetNames, toFile \in BOOLEAN, env \in OsEnvs, ok \in BOOLEAN :
       \E pullEnv \in DOMAIN Targets[tname].Mapping :
       LET t == Targets[tname]
           sid == StoreOf(t, pullEnv)
           blocked == PullBlocked(t.Type)
           authChecked == ~blocked /\ t.Type # "dotenv"
           authFail == authChecked /\ ~CheckAuth(t, env)
           listed == ~blocked /\ ~authFail /\ createProvider(t, env)
           secrets == ProviderList(t.Type, store[sid])
           kept == PullFilter(schema, secrets)
           out == listed /\ ok /\ secrets # NoKeys
           newNames == {n \in Names : kept[n] # Absent /\ ~HasSecret(schema, n)}
           err == IF blocked THEN "write-only"
                  ELSE IF authFail THEN "auth"
                  ELSE IF ~listed THEN "create"
                  ELSE IF ~ok THEN "list" ELSE ""
       IN /\ ~ok => (listed /\ nDisturb < MaxDisturb)
          /\ nDisturb' = IF ok THEN nDisturb ELSE nDisturb + 1
          /\ osenv' = env
          /\ log' = IF listed THEN <<ListCall([target |-> tname, env |-> pullEnv], ok)>>
                    ELSE <<>>
          /\ envFile' = IF out /\ toFile THEN WriteEnvFile(kept) ELSE envFile
          /\ \E q \in Orderings(IF out THEN newNames ELSE {}) : schema' = schema \o q
          /\ run' = [IdleRun EXCEPT !.mode = "pull", !.tasks = <<<<tname, pullEnv>>>>,
                                    !.toFile = toFile, !.err = err,
                                    !.authChecked = authChecked,
                                    !.stdout = IF out /\ ~toFile THEN kept ELSE NoKeys,
                                    !.fileBefore = envFile, !.schemaBefore = schema]
    /\ pc' = "done"
    /\ shadow' = store
    /\ nRuns' = nRuns + 1
    /\ UNCHANGED <<probe, store, src, eng, quiet, focus>>

InitPull ==
    /\ envFile \in {NoKeys, (NA :> VX) @@ (NB :> VY)}
    /\ schema \in {<<>>, <<NA>>, <<NA, NB>>}
    /\ \E r \in InMaps(RemoteValues) : store = [s \in StoreIds |-> r]
    /\ osenv = NoEnv
    /\ src = NewFileSource
    /\ pc = "idle"
    /\ run = IdleRun
    /\ eng = IdleEng
    /\ log = <<>>
    /\ shadow = store
    /\ quiet = {}
    /\ focus = <<"api", "staging">>
    /\ nRuns = 0
    /\ nDisturb = 0
    /\ probe = NoProbe

NextPull ==
    \/ RunPull
    \/ Finish

SpecPull == InitPull /\ [][NextPull]_vars

PullTarget == Targets[run.tasks[1][1]]

\* C18: a pull from a write-only platform fails with the write-only error
\* before any credential check or store call, and leaves the local file,
\* the schema and standard output untouched.
C18_PullBlockedOnWriteOnly ==
    (run.mode = "pull" /\ IsWriteOnly(PullTarget.Type)) =>
        /\ run.err = "write-only"
        /\ ~run.authChecked
        /\ log = <<>>
        /\ envFile = run.fileBefore
        /\ schema = run.schemaBefore
        /\ run.stdout = NoKeys
        /\ store = shadow

\* a pull to a file from the write-only store, which holds a secret, with
\* the credential at hand
C18_Witness ==
    /\ run.mode = "pull"
    /\ run.tasks[1][1] = "fly"
    /\ run.toFile
    /\ run.err = "write-only"
    /\ osenv["FLY_API_TOKEN"] # ""
    /\ store[<<"fly", "">>][NB] # Absent
    /\ run.fileBefore # NoKeys

\* C20: a pull ignores remote secrets whose names are not in the schema:
\* such a name is not printed, is not in a file the pull wrote, and the
\* schema is left as it was, whatever the schema held.
C20_PullIgnoresNonSchema ==
    (run.mode = "pull" /\ pc = "done") =>
        /\ schema = run.schemaBefore
        /\ \A n \in Names :
              ~HasSecret(run.schemaBefore, n) =>
                  /\ run.stdout[n] = Absent
                  /\ envFile # run.fileBefore => envFile[n] = Absent

\* (C20, for comparison) the same statement for a schema that is not empty
C20_PullIgnoresNonSchemaNonEmpty ==
    (run.mode = "pull" /\ pc = "done" /\ run.schemaBefore # <<>>) =>
        /\ schema = run.schemaBefore
        /\ \A n \in Names :
              ~HasSecret(run.schemaBefore, n) =>
                  /\ run.stdout[n] = Absent
                  /\ envFile # run.fileBefore => envFile[n] = Absent

\* ============================================== the filter, called alone
MaxPatterns == 2   \* patterns in an include or an exclude list

\* every variable of the commands at rest
AtRest ==
    /\ envFile = NoKeys
    /\ schema = <<>>
    /\ store = [sid \in StoreIds |-> NoKeys]
    /\ osenv = NoEnv
    /\ src = NewFileSource
    /\ pc = "idle"
    /\ run = IdleRun
    /\ eng = IdleEng
    /\ log = <<>>
    /\ shadow = store
    /\ quiet = {}
    /\ focus = <<"api", "staging">>
    /\ nRuns = 0
    /\ nDisturb = 0

ProbeNames == {NA, NB, <<"A">>, <<"A", "/", "K">>}
ProbePatterns == {<<"A", "*">>, <<"*", "K">>, <<"?", "K">>, <<"B", "K">>}
PatternLists == UNION {[1..k -> ProbePatterns] : k \in 0..MaxPatterns}

\* a target that carries nothing but the two pattern lists
FilterTarget(include, exclude) ==
    [Name |-> "t", Type |-> "railway", Include |-> include, Exclude |-> exclude]

InitFilter ==
    /\ AtRest
    /\ \E name \in ProbeNames, include \in PatternLists, exclude \in PatternLists :
          probe = [fn |-> "ShouldSyncSecret", name |-> name, include |-> include,
                   exclude |-> exclude, done |-> FALSE, result |-> FALSE,
                   filtered |-> <<>>]

\* ShouldSyncSecret(name, target) and FilterSecretNames([name], target) are called
CallShouldSync ==
    /\ probe.fn = "ShouldSyncSecret"
    /\ ~probe.done
    /\ LET t == FilterTarget(probe.include, probe.exclude)
       IN probe' = [probe EXCEPT !.done = TRUE,
                                 !.result = ShouldSyncSecret(probe.name, t),
                                 !.filtered = FilterSecretNames(<<probe.name>>, t)]
    /\ UNCHANGED <<envFile, schema, store, osenv, src, pc, run, eng, log,
                   shadow, quiet, focus, nRuns, nDisturb>>

NextFilter == CallShouldSync

SpecFilter == InitFilter /\ [][NextFilter]_vars

\* the name glob-matches some pattern of the list
GlobMatchesSome(name, patterns) ==
    \E i \in 1..Len(patterns) : Match(patterns[i], name)

\* C15: shouldSync(name, target) is true exactly when (the include list is
\* empty or the name glob-matches one of its patterns) and the name
\* glob-matches no exclude pattern; FilterSecretNames keeps the name on
\* exactly that condition.
C15_ShouldSyncRule ==
    (probe.fn = "ShouldSyncSecret" /\ probe.done) =>
        LET want == /\ (probe.include = <<>> \/ GlobMatchesSome(probe.name, probe.include))
                    /\ ~GlobMatchesSome(probe.name, probe.exclude)
        IN /\ probe.result = want
           /\ probe.filtered = (IF want THEN <<probe.name>> ELSE <<>>)
           /\ (probe.include = <<>> /\ probe.exclude = <<>>) => probe.result

\* include accepts the name, exclude rejects it
C15_Witness ==
    /\ probe.fn = "ShouldSyncSecret"
    /\ probe.done
    /\ probe.include # <<>>
    /\ GlobMatchesSome(probe.name, probe.include)
    /\ GlobMatchesSome(probe.name, probe.exclude)
    /\ ~probe.result

\* ================================= the credential resolver, called alone
ProbeTokens == {"", "lit", "${MY_TOKEN}", "${RAILWAY_TOKEN}"}
ProbeEnvs == [RefVars -> {"", "tok", "ref"}]

InitCreds ==
    /\ AtRest
    /\ \E type \in DOMAIN ProviderInfo, env \in ProbeEnvs,
          config \in [token : ProbeTokens, deploy_key : ProbeTokens, api_key : ProbeTokens] :
          probe = [fn |-> "ResolveCredentials", type |-> type, config |-> config,
                   env |-> env, done |-> FALSE,
                   result |-> [ok |-> FALSE, Token |-> "", Source |-> ""]]

\* auth.ResolveCredentials(providerType, config) is called
CallResolveCredentials ==
    /\ probe.fn = "ResolveCredentials"
    /\ ~probe.done
    /\ probe' = [probe EXCEPT !.done = TRUE,
                              !.result = ResolveCredentials(probe.type, probe.config,
                                                            probe.env)]
    /\ UNCHANGED <<envFile, schema, store, osenv, src, pc, run, eng, log,
                   shadow, quiet, focus, nRuns, nDisturb>>

NextCreds == CallResolveCredentials

SpecCreds == InitCreds /\ [][NextCreds]_vars

\* the inline fields in the order they are tried, and what a field's text
\* stands for once its reference is expanded
InlineFields == <<probe.config.token, probe.config.deploy_key, probe.config.api_key>>
Expanded(text) ==
    CASE text = "${MY_TOKEN}" -> probe.env["MY_TOKEN"]
      [] text = "${RAILWAY_TOKEN}" -> probe.env["RAILWAY_TOKEN"]
      [] OTHER -> text

\* C19: credential resolution returns the value of the platform's declared
\* environment variable when it is set and not empty; otherwise the first
\* non-empty inline field among token, deploy_key, api_key with its ${VAR}
\* reference expanded; otherwise not-found.  The variable wins over any
\* inline value.
C19_ResolutionOrder ==
    (probe.fn = "ResolveCredentials" /\ probe.done) =>
        LET ev == EnvVarFor(probe.type)
            set == {i \in 1..3 : InlineFields[i] # ""}
            first == CHOOSE i \in set : \A j \in set : i <= j
        IN IF ev # "" /\ probe.env[ev] # ""
           THEN probe.result = [ok |-> TRUE, Token |-> probe.env[ev], Source |-> "env"]
           ELSE IF set # {}
           THEN probe.result = [ok |-> TRUE, Token |-> Expanded(InlineFields[first]),
                                Source |-> "config"]
           ELSE ~probe.result.ok

\* the variable is set and an inline token with another value is present
C19_Witness ==
    /\ probe.fn = "ResolveCredentials"
    /\ probe.done
    /\ probe.type = "railway"
    /\ probe.env["RAILWAY_TOKEN"] = "tok"
    /\ probe.config.token = "lit"
    /\ probe.result.Token = "tok"
    /\ probe.result.Source = "env"

\* ================================================================== set
\* the values given on the command line
SetValues == {VX, VY}

\* appendToEnvFile: the line of the name is replaced, or a line is added
appendToEnvFile(file, name, value) == [file EXCEPT ![name] = value]

\* Config.AddSecret
AddSecret(secrets, name) == IF HasSecret(secrets, name) THEN secrets ELSE Append(secrets, name)

\* dotenvy set NAME=VALUE --env <setEnv> [--dry-run] [--plain]: runSet up to
\* the start of the first pair: the name is added to dotenvy.yaml, the value
\* is written to the env file, then the sync begins (runSyncPlain's
\* authentication pass, or the TUI's checkAuth)
\* (run.fileBefore, run.schemaBefore: history, the state the command found)
StartSet ==
    /\ pc = "idle"
    /\ nRuns < MaxCommands
    /\ \E name \in Names, arg \in SetValues, dryRun \in BOOLEAN, plain \in BOOLEAN,
          setEnv \in LocalEnvs, env \in OsEnvs :
       \E tasks \in BuildTasks(TargetOrder, setEnv) :
       LET value == TrimSpace(arg)
           secretNames == AddSecret(schema, name)
           r0 == [IdleRun EXCEPT !.cmd = "set", !.mode = IF plain THEN "plain" ELSE "tui",
                                 !.dryRun = dryRun, !.localEnv = setEnv,
                                 !.secretNames = secretNames,
                                 !.targets = TargetOrder, !.tasks = tasks,
                                 !.status = IF plain THEN <<>>
                                            ELSE [i \in 1..Len(tasks) |-> "pending"],
                                 !.fileBefore = envFile, !.schemaBefore = schema]
           authOk == IF plain THEN AuthGate(PlainAllAuth(TargetOrder, env))
                     ELSE TuiAuthOk(tasks, env)
       IN /\ schema' = secretNames
          /\ envFile' = appendToEnvFile(envFile, name, value)
          /\ osenv' = env
          /\ IF tasks = <<>>
             THEN /\ pc' = "done"
                  /\ run' = [r0 EXCEPT !.step = "done"]
                  /\ eng' = IdleEng
             ELSE IF authOk
             THEN /\ pc' = r0.mode
                  /\ run' = IF plain THEN [r0 EXCEPT !.cur = 1, !.step = "preview"]
                            ELSE [r0 EXCEPT !.cur = 1, !.step = "preview",
                                            !.status[1] = "running"]
                  /\ eng' = Enter("preview", tasks[1][1], tasks[1][2], FALSE, <<>>)
             ELSE /\ pc' = "done"
                  /\ run' = [r0 EXCEPT !.err = "auth",
                                       !.step = IF plain THEN "" ELSE "auth"]
                  /\ eng' = IdleEng
    /\ src' = NewFileSource
    /\ log' = <<>>
    /\ shadow' = store
    /\ nRuns' = nRuns + 1
    /\ UNCHANGED <<probe, store, quiet, focus, nDisturb>>

InitSet ==
    /\ envFile \in {NoKeys, (NA :> VX) @@ (NB :> Absent)}
    /\ schema \in {<<>>, <<NA>>}
    /\ \E r \in InMaps(OrchRemoteValues) : store = [s \in StoreIds |-> r]
    /\ osenv = NoEnv
    /\ src = NewFileSource
    /\ pc = "idle"
    /\ run = IdleRun
    /\ eng = IdleEng
    /\ log = <<>>
    /\ shadow = store
    /\ quiet = {}
    /\ focus = <<"api", "staging">>
    /\ nRuns = 0
    /\ nDisturb = 0
    /\ probe = NoProbe

NextSet ==
    \/ StartSet
    \/ PreviewStep
    \/ ApplyStep
    \/ PlainPreviewReturn
    \/ PlainSyncReturn
    \/ TuiPreviewDone
    \/ TuiSyncDone
    \/ Finish

SpecSet == InitSet /\ [][NextSet]_vars

\* C21: with --dry-run the set command previews without applying: while
\* it runs and when it has finished, dotenvy.yaml, the local env file and
\* every remote store hold what they held before the command.
C21_SetDryRunChangesNothing ==
    (run.cmd = "set" /\ run.dryRun) =>
        /\ schema = run.schemaBefore
        /\ envFile = run.fileBefore
        /\ store = shadow

\* (C21, for comparison) the part of the statement about the remote stores
C21_SetDryRunStoresUntouched ==
    (run.cmd = "set" /\ run.dryRun) =>
        /\ store = shadow
        /\ \A i \in 1..Len(log) : log[i].op = "List"

\* ================================================ the env-file round trip
MaxValueLen == 2   \* characters in a written value

ValueChars == {"x", " ", DQ, SQ, BS, "$"}
ProbeValues == UNION {[1..k -> ValueChars] : k \in 0..MaxValueLen}

FileStore == <<"file", "">>

InitRoundTrip ==
    /\ AtRest
    /\ \E v \in ProbeValues, via \in {"Set", "WriteEnvFile"} :
          probe = [fn |-> "RoundTrip", via |-> via, value |-> v, phase |-> "start",
                   readback |-> Absent]

\* the dotenv provider's Set(name, v), or source.WriteEnvFile(path, {name: v})
RoundTripWrite ==
    /\ probe.fn = "RoundTrip"
    /\ probe.phase = "start"
    /\ IF probe.via = "Set"
       THEN /\ store' = [store EXCEPT ![FileStore] =
                            ProviderSet("dotenv", store[FileStore], NA, probe.value)]
            /\ UNCHANGED envFile
       ELSE /\ envFile' = WriteEnvFile([NoKeys EXCEPT ![NA] = probe.value])
            /\ UNCHANGED store
    /\ probe' = [probe EXCEPT !.phase = "written"]
    /\ UNCHANGED <<schema, osenv, src, pc, run, eng, log, shadow, quiet, focus,
                   nRuns, nDisturb>>

\* the dotenv provider's List, or NewFileSource(path).GetAll([name])
RoundTripRead ==
    /\ probe.fn = "RoundTrip"
    /\ probe.phase = "written"
    /\ probe' = [probe EXCEPT
                    !.phase = "read",
                    !.readback = IF probe.via = "Set"
                                 THEN ProviderList("dotenv", store[FileStore])[NA]
                                 ELSE GetAll(load(NewFileSource, envFile), <<NA>>)[NA]]
    /\ UNCHANGED <<envFile, schema, store, osenv, src, pc, run, eng, log, shadow,
                   quiet, focus, nRuns, nDisturb>>

NextRoundTrip ==
    \/ RoundTripWrite
    \/ RoundTripRead

SpecRoundTrip == InitRoundTrip /\ [][NextRoundTrip]_vars

\* C22: a value written to the dotenv store or by the env-file writer and
\* read back is unchanged, for every value, those with whitespace, quotes,
\* backslashes or $ included.
C22_RoundTrip ==
    (probe.fn = "RoundTrip" /\ probe.phase = "read") => probe.readback = probe.value

Escaped(v) == ContainsAny(v, {BS, DQ})

\* (C22, for comparison) the same statement for values that hold neither a
\* backslash nor a double quote
C22_RoundTripUnescaped ==
    (probe.fn = "RoundTrip" /\ probe.phase = "read" /\ ~Escaped(probe.value)) =>
        probe.readback = probe.value

\* ================================================= the progress callback
\* a caller invokes Sync on one pair with SyncOptions.Progress set
CallSyncWithProgress ==
    /\ pc = "idle"
    /\ nRuns < MaxRuns
    /\ \E dryRun \in BOOLEAN, env \in {NoEnv, AllEnv} :
          /\ pc' = "engine"
          /\ osenv' = env
          /\ run' = [IdleRun EXCEPT !.mode = "engine", !.dryRun = dryRun,
                                    !.secretNames = schema]
          /\ eng' = [Enter("sync", focus[1], focus[2], dryRun, <<>>) EXCEPT
                         !.progress = TRUE]
    /\ src' = NewFileSource
    /\ log' = <<>>
    /\ shadow' = store
    /\ nRuns' = nRuns + 1
    /\ UNCHANGED <<probe, envFile, schema, store, quiet, focus, nDisturb>>

NextProgress ==
    \/ CallSyncWithProgress
    \/ CallEngine
    \/ PreviewStep
    \/ ApplyStep
    \/ EngineReturn

SpecProgress == Init /\ [][NextProgress]_vars

\* the positions in the command's call log of the Set calls made so far
SetPositions == {k \in 1..Len(log) : log[k].op = "Set"}
NthSet(j) == CHOOSE k \in SetPositions : Cardinality({l \in SetPositions : l <= k}) = j

\* the diff entry the j-th write attempt was made for
NthChange(j) ==
    LET I == {i \in 1..Len(eng.diff) : eng.diff[i].Type # "unchanged"}
    IN eng.diff[CHOOSE i \in I : Cardinality({l \in I : l <= i}) = j]

\* the events are two per write attempt, one right before the Set call and
\* one right after it, both naming the target, the secret and the
\* environment, the second telling success from error
EventsBracketSets ==
    /\ Len(eng.events) = 2 * Cardinality(SetPositions)
    /\ \A j \in 1..Cardinality(SetPositions) :
          LET before == eng.events[2 * j - 1]
              after == eng.events[2 * j]
              call == log[NthSet(j)]
          IN /\ before.at = NthSet(j) - 1
             /\ after.at = NthSet(j)
             /\ \A ev \in {before, after} :
                   /\ ev.TargetName = eng.target
                   /\ ev.SecretName = call.name
                   /\ ev.Environment = eng.env
             /\ before.Action = NthChange(j).Type
             /\ after.Success = call.ok
             /\ after.Error = ~call.ok

\* the Set calls and the counters are those the diff and the outcomes of the
\* calls give, with a callback or without
SameWithOrWithout ==
    /\ SetTriples(Calls) = ChangesAmong(eng.diff, eng.idx - 1)
    /\ eng.result.Failed = Cardinality({k \in SetPositions : ~log[k].ok})
    /\ eng.result.Added + eng.result.Changed + eng.result.Unknown
          = Cardinality({k \in SetPositions : log[k].ok})
    /\ eng.result.Unchanged
          = Cardinality({i \in 1..(eng.idx - 1) : eng.diff[i].Type = "unchanged"})

\* C23: with a progress callback each write attempt has exactly one event
\* before its Set call and one after it, each carrying the target, the
\* secret name, the environment and the action label (the one after also
\* success or error); without a callback there is no event; either way the
\* Set calls and the result are the same.
C23_ProgressEvents ==
    /\ SyncApplying =>
          /\ SameWithOrWithout
          /\ IF eng.progress
             THEN /\ EventsBracketSets
                  /\ \A j \in 1..Cardinality(SetPositions) :
                        eng.events[2 * j].Action = NthChange(j).Type
             ELSE eng.events = <<>>
    /\ ~SyncApplying => eng.events = <<>>

\* (C23, for comparison) the same statement without the action label of
\* the event that follows the Set call
C23_ProgressEventsBeforeLabelled ==
    /\ SyncApplying =>
          /\ SameWithOrWithout
          /\ IF eng.progress THEN EventsBracketSets ELSE eng.events = <<>>
    /\ ~SyncApplying => eng.events = <<>>

\* ======================================================= the Vercel store
\* Provider.Environments
VercelEnvs == {"development", "preview", "production"}

VercelProject == <<"vercel", "my-app">>

EnvVar(id, key, value, target) == [ID |-> id, Key |-> key, Value |-> value, Target |-> target]

\* the variables a project may hold before the call: none, one shared by
\* all environments, one per group of environments, another name besides
VercelProjects ==
    {<<>>,
     <<EnvVar(1, NA, VX, <<"development", "preview", "production">>)>>,
     <<EnvVar(1, NA, VX, <<"development">>)>>,
     <<EnvVar(1, NA, VX, <<"development", "preview">>),
       EnvVar(2, NA, VY, <<"production">>)>>,
     <<EnvVar(1, NA, VY, <<"production">>),
       EnvVar(2, NB, VX, <<"development", "preview", "production">>)>>}

containsTarget(targets, target) == \E i \in 1..Len(targets) : targets[i] = target

\* the provider's cache after  for _, e := range envs { p.envVars[e.Key] = e } :
\* per key the last variable of the listing (0: no variable has the key)
CacheIndex(envs, key) ==
    LET I == {i \in 1..Len(envs) : envs[i].Key = key}
    IN IF I = {} THEN 0 ELSE CHOOSE i \in I : \A j \in I : j <= i

\* Provider.List(environment) of a provider made for the call
VercelList(envs, environment) ==
    [n \in Names |->
        LET i == CacheIndex(envs, n)
        IN IF i # 0 /\ containsTarget(envs[i].Target, environment)
           THEN envs[i].Value ELSE Absent]

\* Client.UpdateEnvVar (PATCH: the variable with the id takes the value and
\* the target list sent) and Client.CreateEnvVar (POST: a variable is added)
UpdateEnvVar(envs, id, updated) ==
    [i \in 1..Len(envs) |->
        IF envs[i].ID = id THEN EnvVar(id, updated.Key, updated.Value, updated.Target)
        ELSE envs[i]]

CreateEnvVar(envs, newVar) ==
    Append(envs, EnvVar(Len(envs) + 1, newVar.Key, newVar.Value, newVar.Target))

\* Provider.Set(name, value, environment): the project after a successful call
VercelSet(envs, name, value, environment) ==
    LET i == CacheIndex(envs, name)
    IN IF i # 0
       THEN IF containsTarget(envs[i].Target, environment)
            THEN UpdateEnvVar(envs, envs[i].ID, EnvVar(0, name, value, envs[i].Target))
            ELSE UpdateEnvVar(envs, envs[i].ID,
                              EnvVar(0, name, value, Append(envs[i].Target, environment)))
       ELSE CreateEnvVar(envs, EnvVar(0, name, value, <<environment>>))

InitVercel ==
    /\ envFile = NoKeys
    /\ schema = <<>>
    /\ \E envs \in VercelProjects : store = (VercelProject :> envs)
    /\ osenv = NoEnv
    /\ src = NewFileSource
    /\ pc = "idle"
    /\ run = IdleRun
    /\ eng = IdleEng
    /\ log = <<>>
    /\ shadow = store
    /\ quiet = {}
    /\ focus = <<"api", "staging">>
    /\ nRuns = 0
    /\ nDisturb = 0
    /\ \E name \in Names, value \in {VX, VY}, environment \in VercelEnvs :
          probe = [fn |-> "VercelSet", name |-> name, value |-> value,
                   environment |-> environment, phase |-> "start", ok |-> FALSE,
                   listedEnv |-> "", listed |-> NoKeys]

\* Provider.Set is called; the API request at the end succeeds or fails
CallVercelSet ==
    /\ probe.fn = "VercelSet"
    /\ probe.phase = "start"
    /\ \E ok \in BOOLEAN :
          /\ store' = IF ok
                      THEN (VercelProject :> VercelSet(store[VercelProject], probe.name,
                                                       probe.value, probe.environment))
                      ELSE store
          /\ probe' = [probe EXCEPT !.phase = "set", !.ok = ok]
    /\ UNCHANGED <<envFile, schema, osenv, src, pc, run, eng, log, shadow, quiet,
                   focus, nRuns, nDisturb>>

\* a new provider lists one environment
CallVercelList ==
    /\ probe.fn = "VercelSet"
    /\ probe.phase = "set"
    /\ \E environment \in VercelEnvs :
          probe' = [probe EXCEPT !.phase = "listed", !.listedEnv = environment,
                                 !.listed = VercelList(store[VercelProject], environment)]
    /\ UNCHANGED <<envFile, schema, store, osenv, src, pc, run, eng, log, shadow,
                   quiet, focus, nRuns, nDisturb>>

NextVercel ==
    \/ CallVercelSet
    \/ CallVercelList

SpecVercel == InitVercel /\ [][NextVercel]_vars

\* what a listing of the environment returned before the Set
ListedBefore(environment) == VercelList(shadow[VercelProject], environment)

\* C24: on the Vercel store Set(name, value, E) changes the value of name
\* in environment E only: a listing of any other environment returns for
\* name what it returned before the Set (the same value, or the same
\* absence).
C24_SetTouchesOneEnvironment ==
    (probe.fn = "VercelSet" /\ probe.phase = "listed"
        /\ probe.listedEnv # probe.environment) =>
        probe.listed[probe.name] = ListedBefore(probe.listedEnv)[probe.name]

\* (C24, for comparison) Set leaves every other name as it was in every
\* environment, and a successful Set makes E list the value
C24_SetTouchesOneName ==
    (probe.fn = "VercelSet" /\ probe.phase = "listed") =>
        /\ \A n \in Names \ {probe.name} :
              probe.listed[n] = ListedBefore(probe.listedEnv)[n]
        /\ (probe.ok /\ probe.listedEnv = probe.environment) =>
              probe.listed[probe.name] = probe.value
        /\ ~probe.ok => probe.listed = ListedBefore(probe.listedEnv)

\* ============================================================ dashboard
\* (run.step is the screen: "setup", "calc" while calculateDiffs runs,
\* "preview", "syncing" while performSync runs, "dashboard", "complete";
\* run.synced: history, the pairs engine.Sync was invoked for)

\* handleDashboardKeys, key s: the authentication pass, then the setup screen
DashSyncKey ==
    /\ pc = "idle" \/ (pc = "done" /\ run.mode = "dash")
    /\ nRuns < MaxCommands
    /\ \E env \in OsEnvs :
       LET r0 == [IdleRun EXCEPT !.mode = "dash", !.targets = TargetOrder,
                                 !.syncResults = IF pc = "idle" THEN "nil"
                                                 ELSE run.syncResults]
       IN /\ pc = "done" => env = osenv
          /\ osenv' = env
          /\ IF PlainAllAuth(TargetOrder, env)
             THEN /\ pc' = "dash"
                  /\ run' = [r0 EXCEPT !.step = "setup"]
             ELSE /\ pc' = "done"
                  /\ run' = [r0 EXCEPT !.step = "dashboard", !.err = "auth"]
    /\ eng' = IdleEng
    /\ src' = NewFileSource
    /\ log' = <<>>
    /\ shadow' = store
    /\ nRuns' = nRuns + 1
    /\ UNCHANGED <<probe, envFile, schema, store, quiet, focus, nDisturb>>

\* handleSyncSetupKeys, key enter: calculateDiffs starts with a new source
DashSetupEnter ==
    /\ pc = "dash"
    /\ run.step = "setup"
    /\ \E syncEnv \in LocalEnvs :
       \E tasks \in BuildTasks(run.targets, syncEnv) :
       LET r1 == [run EXCEPT !.localEnv = syncEnv, !.secretNames = schema,
                             !.tasks = tasks, !.diffs = <<>>]
       IN IF tasks = <<>>
          THEN /\ run' = [r1 EXCEPT !.step = "preview"]
               /\ eng' = IdleEng
          ELSE /\ run' = [r1 EXCEPT !.cur = 1, !.step = "calc"]
               /\ eng' = Enter("preview", tasks[1][1], tasks[1][2], FALSE, log)
    /\ src' = NewFileSource
    /\ UNCHANGED <<probe, envFile, schema, store, osenv, pc, log, shadow, quiet, focus,
                   nRuns, nDisturb>>

\* calculateDiffs after a Preview returned, and Update(diffsCalculatedMsg)
\* after the last one or after an error
DashPreviewReturn ==
    /\ pc = "dash"
    /\ run.step = "calc"
    /\ eng.phase = "ret"
    /\ IF eng.err # ""
       THEN /\ pc' = "done"
            /\ run' = [run EXCEPT !.step = "dashboard", !.err = "preview"]
            /\ eng' = IdleEng
       ELSE LET r1 == [run EXCEPT !.diffs = Append(@, [TargetName |-> eng.target,
                                                        Diffs |-> eng.diff])]
            IN /\ pc' = "dash"
               /\ IF run.cur < Len(run.tasks)
                  THEN /\ run' = [r1 EXCEPT !.cur = run.cur + 1]
                       /\ eng' = Enter("preview", run.tasks[run.cur + 1][1],
                                       run.tasks[run.cur + 1][2], FALSE, log)
                  ELSE /\ run' = [r1 EXCEPT !.step = "preview", !.cur = 0]
                       /\ eng' = IdleEng
    /\ UNCHANGED <<probe, envFile, schema, store, osenv, src, log, shadow, quiet, focus,
                   nRuns, nDisturb>>

\* performSync's loop: the first diff after position i that has changes
\* (0: none is left)
NextChanged(diffs, i) ==
    LET I == {j \in (i + 1)..Len(diffs) : HasChanges(diffs[j].Diffs)}
    IN IF I = {} THEN 0 ELSE CHOOSE j \in I : \A k \in I : j <= k

\* performSync's  if m.syncResults == nil { return syncCompleteMsg{result} }
ReturnsAfterSync(syncResults) == syncResults = "nil"

\* performSync calls engine.Sync for the diff at position j
DashSync(r, j) ==
    LET remoteEnv == r.diffs[j].Diffs[1].Environment
    IN /\ run' = [r EXCEPT !.cur = j, !.step = "syncing",
                           !.synced = Append(@, <<r.diffs[j].TargetName, remoteEnv>>)]
       /\ eng' = Enter("sync", r.diffs[j].TargetName, remoteEnv, FALSE, log)

\* handleSyncPreviewKeys, key enter ("apply all"): performSync starts when
\* some diff has changes
DashApplyAll ==
    /\ pc = "dash"
    /\ run.step = "preview"
    /\ NextChanged(run.diffs, 0) # 0
    /\ DashSync(run, NextChanged(run.diffs, 0))
    /\ src' = NewFileSource
    /\ UNCHANGED <<probe, envFile, schema, store, osenv, pc, log, shadow, quiet, focus,
                   nRuns, nDisturb>>

\* key esc on the preview screen
DashCancel ==
    /\ pc = "dash"
    /\ run.step = "preview"
    /\ pc' = "done"
    /\ run' = [run EXCEPT !.step = "dashboard"]
    /\ UNCHANGED <<probe, envFile, schema, store, osenv, src, eng, log, shadow, quiet,
                   focus, nRuns, nDisturb>>

\* performSync after engine.Sync returned, and Update(syncCompleteMsg) when
\* performSync returns
DashSyncReturn ==
    /\ pc = "dash"
    /\ run.step = "syncing"
    /\ eng.phase = "ret"
    /\ LET nxt == NextChanged(run.diffs, run.cur)
           Complete(err, res) ==
               /\ pc' = "done"
               /\ run' = [run EXCEPT !.step = "complete", !.err = err,
                                     !.syncResults = res]
               /\ eng' = IdleEng
       IN IF eng.err # "" THEN Complete("sync", "nil")
          ELSE IF ReturnsAfterSync(run.syncResults) THEN Complete("", "set")
          ELSE IF nxt # 0 THEN pc' = "dash" /\ DashSync(run, nxt)
          ELSE Complete("", run.syncResults)
    /\ quiet' = QuietAfter
    /\ UNCHANGED <<probe, envFile, schema, store, osenv, src, log, shadow, focus,
                   nRuns, nDisturb>>

NextDash ==
    \/ DashSyncKey
    \/ DashSetupEnter
    \/ PreviewStep
    \/ DashPreviewReturn
    \/ DashApplyAll
    \/ DashCancel
    \/ ApplyStep
    \/ DashSyncReturn
    \/ Finish

SpecDash == InitOrch /\ [][NextDash]_vars

SyncsOf(pair) == Cardinality({k \in 1..Len(run.synced) : run.synced[k] = pair})

\* C25: when the dashboard reports the sync complete after 'apply all',
\* Sync has been invoked once for every previewed (target, remote
\* environment) diff that has changes.
C25_ApplyAllSyncsEveryDiff ==
    (run.mode = "dash" /\ run.step = "complete" /\ run.err = "") =>
        \A j \in 1..Len(run.diffs) :
            HasChanges(run.diffs[j].Diffs) =>
                SyncsOf(<<run.diffs[j].TargetName, run.diffs[j].Diffs[1].Environment>>) = 1

\* (C25, for comparison) the first diff with changes is synced once, and
\* no diff without changes is synced
C25_ApplyAllSyncsFirstDiff ==
    (run.mode = "dash" /\ run.step = "complete" /\ run.err = "") =>
        /\ Len(run.synced) >= 1
        /\ LET j == NextChanged(run.diffs, 0)
           IN run.synced[1] = <<run.diffs[j].TargetName, run.diffs[j].Diffs[1].Environment>>
        /\ \A k \in 1..Len(run.synced) :
              /\ SyncsOf(run.synced[k]) = 1
              /\ \E j \in 1..Len(run.diffs) :
                    /\ HasChanges(run.diffs[j].Diffs)
                    /\ run.synced[k] = <<run.diffs[j].TargetName,
                                         run.diffs[j].Diffs[1].Environment>>

\* ================================================ the TUI after an error
\* the orchestrator's Preview of the run's i-th pair returned an error: no
\* store handle, or its List call (the first call on the pair) failed
FirstCallOn(i) == CHOOSE k \in CallsOn(i) : \A l \in CallsOn(i) : k <= l
PreviewFailed(i) ==
    \/ ~createProvider(TaskTarget(i), osenv)
    \/ CallsOn(i) # {} /\ ~log[FirstCallOn(i)].ok

\* the task has been through Update(syncDoneMsg)
TaskFinished(i) == i < run.cur

\* C26: in the TUI sync flow a task whose Preview returned an error is
\* marked failed and stays failed: its final status is Failed, never
\* Complete, the failure is counted in the run's failed total, and no
\* write is issued for the task.
C26_PreviewErrorStaysFailed ==
    run.mode = "tui" =>
        \A i \in 1..Len(run.tasks) :
            (TaskFinished(i) /\ PreviewFailed(i)) =>
                /\ run.status[i] = "failed"
                /\ run.totals.Failed >= 1
                /\ \A k \in CallsOn(i) : log[k].op # "Set"

\* (C26, for comparison) the task is marked failed when its Preview returns
\* the error and is still so while its Sync is being called
C26_FailedUntilSyncReturns ==
    (pc = "tui" /\ run.step = "sync" /\ eng.phase = "call"
        /\ PreviewFailed(run.cur)) =>
        /\ run.status[run.cur] = "failed"
        /\ \A k \in CallsOn(run.cur) : log[k].op # "Set"

\* ============================================ plain sync: shown and applied
\* a plain run's Sync of the current pair is past its own Preview
PlainSyncApplying ==
    /\ run.mode = "plain"
    /\ run.step = "sync"
    /\ eng.op = "sync"
    /\ eng.phase \in {"apply", "ret"}
    /\ eng.err = ""

\* C27 as stated: in the plain path the writes applied to a pair are
\* exactly the non-Unchanged entries of the diff that was displayed for it,
\* also when the remote or the local state changes between the displayed
\* Preview and the one Sync runs.
C27_WritesAreTheShownDiff ==
    (PlainSyncApplying /\ eng.phase = "ret") =>
        SetTriples(Calls) = ChangesAmong(run.shown, Len(run.shown))

\* C27 as amended: the writes are exactly the non-Unchanged entries of the
\* diff Sync's own Preview computes; that diff is the displayed one whenever
\* the second listing of the remote equals the first, whatever has been
\* edited in the local file in between (the source is loaded once).
C27_WritesAreSyncsOwnDiff ==
    PlainSyncApplying =>
        /\ SetTriples(Calls) = ChangesAmong(eng.diff, eng.idx - 1)
        /\ eng.remoteMap = run.listed => eng.diff = run.shown

\* the local file was edited between the two Previews; the displayed
\* change was written with the displayed value
C27_Witness ==
    /\ PlainSyncApplying
    /\ eng.phase = "ret"
    /\ eng.diff = run.shown
    /\ \E j \in 1..Len(Calls) :
          /\ Calls[j].op = "Set"
          /\ Calls[j].ok
          /\ Val(envFile, Calls[j].name) # Calls[j].value

\* ============================================ sync from an unreadable file
\* dotenvy sync .env.<env>, or --from <file>, naming a file that may not
\* be there
InitNoFile ==
    /\ envFile \in {Unreadable, (NA :> VX) @@ (NB :> VX)}
    /\ schema = <<NA, NB>>
    /\ \E r \in InMaps(OrchRemoteValues) : store = [s \in StoreIds |-> r]
    /\ osenv = NoEnv
    /\ src = NewFileSource
    /\ pc = "idle"
    /\ run = IdleRun
    /\ eng = IdleEng
    /\ log = <<>>
    /\ shadow = store
    /\ quiet = {}
    /\ focus = <<"api", "staging">>
    /\ nRuns = 0
    /\ nDisturb = 0
    /\ probe = NoProbe

NextNoFile ==
    \/ StartPlain
    \/ StartTui
    \/ PreviewStep
    \/ ApplyStep
    \/ PlainPreviewReturn
    \/ PlainSyncReturn
    \/ TuiPreviewDone
    \/ TuiSyncDone
    \/ Finish

SpecNoFile == InitNoFile /\ [][NextNoFile]_vars

\* C28: when the local source file cannot be opened or read, the sync run
\* reports a failure for it: it does not end as a run without failures
\* whose pairs all show an empty diff ("No changes").
C28_UnreadableSourceReported ==
    (RunEnded /\ envFile = Unreadable) => run.totals.Failed >= 1

\* (C28, for comparison) with an unreadable source file every diff is
\* empty and nothing is written
C28_UnreadableSourceWritesNothing ==
    (run.mode \in {"plain", "tui"} /\ envFile = Unreadable) =>
        /\ eng.diff = <<>>
        /\ store = shadow
        /\ \A k \in 1..Len(log) : log[k].op = "List"

\* ============================ pre-flight check, then the store handle
\* the token-based platforms, each with the config its factory requires
TokenTargets ==
    {[Name |-> "t", Type |-> type,
      Config |-> [token |-> tk, deploy_key |-> dk, api_key |-> "",
                  project_id |-> "p", app_name |-> "a"]] :
        type \in {"railway", "flyio"}, tk \in ProbeTokens, dk \in ProbeTokens}

\* the bearer token a factory gives its client: the resolved credential,
\* or the inline token field as written when the resolved one is empty
HandleToken(config, resolved) == IF resolved # "" THEN resolved ELSE config.token

InitAuth ==
    /\ AtRest
    /\ \E t \in TokenTargets, env \in ProbeEnvs :
          probe = [fn |-> "CheckAuth", target |-> t, env |-> env, step |-> "new",
                   authenticated |-> FALSE, source |-> "", handle |-> FALSE,
                   resolved |-> "", token |-> ""]

\* Engine.CheckAuth(target): the pre-flight pass
CallCheckAuth ==
    /\ probe.fn = "CheckAuth"
    /\ probe.step = "new"
    /\ probe' = [probe EXCEPT
          !.step = "checked",
          !.authenticated = CheckAuth(probe.target, probe.env),
          !.source = ResolveCredentials(probe.target.Type, probe.target.Config,
                                        probe.env).Source]
    /\ UNCHANGED <<envFile, schema, store, osenv, src, pc, run, eng, log,
                   shadow, quiet, focus, nRuns, nDisturb>>

\* the run is aborted before any store is touched
AuthAbort ==
    /\ probe.fn = "CheckAuth"
    /\ probe.step = "checked"
    /\ ~probe.authenticated
    /\ probe' = [probe EXCEPT !.step = "aborted"]
    /\ UNCHANGED <<envFile, schema, store, osenv, src, pc, run, eng, log,
                   shadow, quiet, focus, nRuns, nDisturb>>

\* createProvider(target), as Preview calls it after a passed pre-flight
CallCreateProvider ==
    /\ probe.fn = "CheckAuth"
    /\ probe.step = "checked"
    /\ probe.authenticated
    /\ LET creds == ResolveCredentials(probe.target.Type, probe.target.Config, probe.env)
           made == createProvider(probe.target, probe.env)
       IN probe' = [probe EXCEPT
             !.step = "created",
             !.handle = made,
             !.resolved = creds.Token,
             !.token = IF made THEN HandleToken(probe.target.Config, creds.Token)
                       ELSE ""]
    /\ UNCHANGED <<envFile, schema, store, osenv, src, pc, run, eng, log,
                   shadow, quiet, focus, nRuns, nDisturb>>

NextAuth == CallCheckAuth \/ AuthAbort \/ CallCreateProvider

SpecAuth == InitAuth /\ [][NextAuth]_vars

\* the platform's variable is unset or empty and the first inline field
\* that is set expands to the empty string
ExpandsToNothing ==
    /\ probe.env[EnvVarFor(probe.target.Type)] = ""
    /\ getTokenFromConfig(probe.target.Config) # ""
    /\ ExpandEnv(getTokenFromConfig(probe.target.Config), probe.env) = ""

\* C29: when the pre-flight check reports a token-based target as
\* authenticated, the credential handed to its store handle is a non-empty
\* token; an inline token that expands to the empty string counts as
\* credentials not found.
C29_AuthenticatedHasToken ==
    /\ (probe.fn = "CheckAuth" /\ probe.step = "created") => probe.resolved # ""
    /\ (probe.fn = "CheckAuth" /\ probe.step # "new" /\ ExpandsToNothing)
          => ~probe.authenticated

\* what the code does with such a token: the pre-flight pass succeeds with source
\* "config", the resolved credential is empty, and the handle is either
\* refused or given the token field as written, reference unexpanded
C29_EmptyExpansionPasses ==
    (probe.fn = "CheckAuth" /\ probe.step = "created" /\ ExpandsToNothing) =>
        /\ probe.source = "config"
        /\ probe.resolved = ""
        /\ IF probe.target.Config.token = "" THEN ~probe.handle
           ELSE probe.handle /\ probe.token = probe.target.Config.token

C29_Witness ==
    /\ probe.fn = "CheckAuth"
    /\ probe.step = "created"
    /\ ExpandsToNothing
    /\ probe.handle
    /\ probe.token = "${MY_TOKEN}"

\* ============================================== the TUI run to its end
\* the task lists RunSyncUI can be handed: a built list or a prefix of one,
\* the empty list included
TaskLists(localEnv) ==
    UNION {{SubSeq(q, 1, n) : n \in 0..Len(q)} : q \in BuildTasks(TargetOrder, localEnv)}

\* RunSyncUI(cfg): NewSyncModel, the checkAuth command and
\* Update(authCheckMsg)
StartSyncModel ==
    /\ pc = "idle"
    /\ nRuns < MaxCommands
    /\ \E dryRun \in BOOLEAN, localEnv \in LocalEnvs, env \in OsEnvs :
       \E tasks \in TaskLists(localEnv) :
       LET r0 == [IdleRun EXCEPT !.mode = "tui", !.dryRun = dryRun,
                                 !.localEnv = localEnv, !.secretNames = schema,
                                 !.targets = TargetOrder, !.tasks = tasks,
                                 !.status = [i \in 1..Len(tasks) |-> "pending"]]
       IN /\ osenv' = env
          /\ IF ~TuiAuthOk(tasks, env)
             THEN /\ pc' = "done"
                  /\ run' = [r0 EXCEPT !.err = "auth", !.step = "auth"]
                  /\ eng' = IdleEng
             ELSE IF Len(tasks) > 0
             THEN /\ pc' = "tui"
                  /\ run' = [r0 EXCEPT !.cur = 1, !.step = "preview",
                                       !.status[1] = "running"]
                  /\ eng' = Enter("preview", tasks[1][1], tasks[1][2], FALSE, <<>>)
             ELSE /\ pc' = "done"
                  /\ run' = [r0 EXCEPT !.cur = 1, !.step = "preview"]
                  /\ eng' = IdleEng
    /\ src' = NewFileSource
    /\ log' = <<>>
    /\ shadow' = store
    /\ nRuns' = nRuns + 1
    /\ UNCHANGED <<probe, envFile, schema, store, quiet, focus, nDisturb>>

NextTui ==
    \/ StartSyncModel
    \/ PreviewStep
    \/ ApplyStep
    \/ TuiPreviewDone
    \/ TuiSyncDone
    \/ Finish

\* every engine call returns, and every message a command returns is
\* delivered to Update
SpecTui ==
    /\ InitOrch
    /\ [][NextTui]_vars
    /\ WF_vars(PreviewStep)
    /\ WF_vars(ApplyStep)
    /\ WF_vars(TuiPreviewDone)
    /\ WF_vars(TuiSyncDone)

\* how many times the run's i-th task has been listed: once by the
\* orchestrator's Preview and once by the Preview inside Sync
ListsOn(i) == Cardinality({k \in CallsOn(i) : log[k].op = "List"})

\* the tasks before the current one have had their Preview and their Sync,
\* the tasks after it nothing; a run that is done has been through all of
\* them, unless authentication failed
OnePreviewOneSync ==
    run.mode = "tui" =>
        /\ \A i \in 1..Len(run.tasks) :
              /\ i < run.cur => ListsOn(i) = 2 /\ run.status[i] \in {"complete", "failed"}
              /\ i = run.cur =>
                    ListsOn(i) = (CASE run.step = "preview" /\ eng.phase = "call" -> 0
                                    [] run.step = "preview" -> 1
                                    [] run.step = "sync" /\ eng.phase = "call" -> 1
                                    [] OTHER -> 2)
              /\ i > run.cur => ListsOn(i) = 0 /\ CallsOn(i) = {}
        /\ pc = "done" =>
              \/ run.err = "auth" /\ log = <<>>
              \/ run.err = "" /\ run.cur = Len(run.tasks) + 1

\* within a run the current task only moves forward, and nothing more
\* happens to a task behind it
NeverRunAgain ==
    (run.mode = "tui" /\ run'.mode = "tui") =>
        /\ run'.cur >= run.cur
        /\ \A i \in 1..Len(run.tasks) :
              i < run.cur =>
                 /\ run'.status[i] = run.status[i]
                 /\ \A k \in (1..Len(log')) \ (1..Len(log)) :
                       ~(log'[k].target = run.tasks[i][1] /\ log'[k].env = run.tasks[i][2])

\* C30: every TUI sync run terminates: given that each authentication
\* check, Preview and Sync call returns, the model reaches the done state
\* after exactly one Preview and one Sync per task (or at once when
\* authentication fails or the task list is empty), and a finished task is
\* never run again.
C30_TuiTerminates ==
    /\ []OnePreviewOneSync
    /\ [][NeverRunAgain]_vars
    /\ (pc = "tui") ~> (pc = "done")

\* a run of three tasks has ended although one of its List calls failed
C30_Witness ==
    /\ pc = "done"
    /\ run.mode = "tui"
    /\ run.err = ""
    /\ Len(run.tasks) = 3
    /\ run.cur = 4
    /\ NFaults > 0
    /\ \A i \in 1..3 : ListsOn(i) = 2

====
